---- MODULE Spec2Model ----
(***************************************************************************)
(* A model of the minecraft-client wire codec (datatypes.rs, the derive    *)
(* macro of minecraft-derive), its packet framing (packet.rs) and the      *)
(* connection's login / configure / play handlers (connection.rs).         *)
(*                                                                         *)
(* Bytes are integers 0..255 and a byte stream is a sequence of bytes.     *)
(* TLC's integers are 32-bit signed, so a u32 is held as two 16-bit limbs  *)
(* and the wider numerics (i64, u128, ...) as big-endian 16-bit limbs.     *)
(***************************************************************************)
EXTENDS Integers, Sequences, FiniteSets, TLC

VARIABLES
    pc,      \* where the client is: which call runs, or how the last one ended
    rx,      \* inbound bytes the server has sent and the reader has not consumed
    closed,  \* the server has closed the stream: a read past rx is an EOF
    wbuf,    \* bytes written into the BufWriter and not flushed yet
    wire,    \* the flushed writes, in order, each one a byte sequence
    log,     \* history: what the handlers read, decoded and sent, in order
    nsent,   \* how many frames the server has put on the stream
    job,     \* SpecCodec: the codec function to apply, the type and the input
    out      \* SpecCodec: whether it has been applied, and what it returned

vars == <<pc, rx, closed, wbuf, wire, log, nsent, job, out>>

(***************************************************************************)
(* Results.  A decode either returns a value and the unread rest of the    *)
(* stream, or fails: "eof" is read_exact's UnexpectedEof, "malformed" an   *)
(* anyhow! error of the codec, "panic" a Rust panic (the call does not     *)
(* return to its caller at all).                                           *)
(***************************************************************************)
Ok(v, rest) == [ok |-> TRUE, err |-> "", val |-> v, rest |-> rest]

Err(e, rest) == [ok |-> FALSE, err |-> e, val |-> <<>>, rest |-> rest]

\* an encode's result: the bytes written so far, and the error that stopped it
Wrote(bytes) == [ok |-> TRUE, err |-> "", out |-> bytes]

WriteErr(e, bytes) == [ok |-> FALSE, err |-> e, out |-> bytes]

\* a.encode(w)?; b.encode(w): b's bytes follow a's unless a failed
Then(a, b) == IF a.ok THEN [ok |-> b.ok, err |-> b.err, out |-> a.out \o b.out] ELSE a

\* reader.read_exact(&mut buf) with buf.len() = n
read_exact(n, r) ==
    IF Len(r) >= n THEN Ok(SubSeq(r, 1, n), SubSeq(r, n + 1, Len(r)))
    ELSE Err("eof", <<>>)

(***************************************************************************)
(* Bit arithmetic on bytes, 16-bit limbs and u32 limb pairs.               *)
(***************************************************************************)
SEGMENT_BITS == 127

CONTINUE_BIT == 128

\* byte & SEGMENT_BITS: the low seven bits (SEGMENT_BITS is the mask 2^7 - 1)
Segment(byte) == byte % (SEGMENT_BITS + 1)

\* byte & CONTINUE_BIT != 0: bit 7, the only bit of CONTINUE_BIT, is set
Continues(byte) == (byte \div CONTINUE_BIT) % 2 = 1

\* `x as u32` of an i32 (or of a small non-negative number): the bit pattern
AsU32(v) == [hi |-> (v \div 65536) % 65536, lo |-> v % 65536]

\* `x as i32` of a u32 bit pattern
AsI32(u) == IF u.hi >= 32768 THEN (u.hi - 65536) * 65536 + u.lo ELSE u.hi * 65536 + u.lo

\* a | b on u32 values that have no set bit in common, where | adds: in
\* VarInt::decode the bits of `value` lie below `position` and those of the
\* shifted segment at or above it
U32Or(a, b) == [hi |-> a.hi + b.hi, lo |-> a.lo + b.lo]

\* value >>= 7 on a u32 (logical shift)
\* value >>= 8
U32Shr8(u) == [hi |-> u.hi \div 256, lo |-> (u.hi % 256) * 256 + u.lo \div 256]

U32Shr7(u) == [hi |-> u.hi \div 128, lo |-> (u.hi % 128) * 512 + u.lo \div 128]

\* x << n on 32 bits, 0 <= n < 32: the bits shifted past bit 31 are dropped
U32Shl(u, n) ==
    IF n < 16
    THEN [hi |-> (u.hi * 2^n + (u.lo * 2^n) \div 65536) % 65536, lo |-> (u.lo * 2^n) % 65536]
    ELSE [hi |-> (u.lo * 2^(n - 16)) % 65536, lo |-> 0]

\* u32::ilog2 of a non-zero value: the index of the highest set bit
ilog2(n) == CHOOSE i \in 0..15 : 2^i <= n /\ n < 2 * 2^i

U32ilog2(u) == IF u.hi > 0 THEN 16 + ilog2(u.hi) ELSE ilog2(u.lo)

div_ceil(a, b) == (a + b - 1) \div b

(***************************************************************************)
(* VarInt (datatypes.rs 36-77).  A VarInt value is its i32.                *)
(***************************************************************************)
\* one iteration of the loop of VarInt::decode from `value |= ..` on, value2 being
\* the value after it
RECURSIVE VarInt_decode_loop(_, _, _)
VarInt_decode_byte(value2, position, curr_byte, rest) ==
    IF ~Continues(curr_byte) THEN Ok(AsI32(value2), rest)
    ELSE VarInt_decode_loop(value2, position + 7, rest)

\* the loop is entered with `position` bits read into `value`; reader.read_exact of
\* one byte takes r[1]
\* a loop that goes on to a sixth byte
VarInt_decode_loop_six(value, position, r) ==
    CASE ~(position <= 35) -> Err("malformed", r)
      [] Len(r) < 1 -> Err("eof", r)
      [] OTHER -> VarInt_decode_byte(U32Or(value, U32Shl(AsU32(Segment(r[1])), position)),
                                     position, r[1], Tail(r))

VarInt_decode_loop(value, position, r) ==
    CASE ~(position < 32) -> Err("malformed", r)
      [] Len(r) < 1 -> Err("eof", r)
      [] OTHER ->
            VarInt_decode_byte(U32Or(value, U32Shl(AsU32(Segment(r[1])), position)),
                               position, r[1], Tail(r))

VarInt_decode(r) == VarInt_decode_loop(AsU32(0), 0, r)

RECURSIVE VarInt_encode_loop(_)
VarInt_encode_loop(value) ==
    IF value.hi = 0 /\ value.lo \div (SEGMENT_BITS + 1) = 0
    THEN <<value.lo % 256>>
    ELSE <<Segment(value.lo % 256) + CONTINUE_BIT>>
             \o VarInt_encode_loop(U32Shr7(value))

VarInt_encode(self) == Wrote(VarInt_encode_loop(AsU32(self)))

\* the size of the minimal encoding of a signed magnitude
VarInt_num_bytes_signed(self) ==
    IF self <= 0 THEN 1
    ELSE LET bits == U32ilog2(AsU32(self)) + 1 IN div_ceil(bits, 7)

VarInt_num_bytes(self) ==
    IF self = 0 THEN 1
    ELSE LET bits == U32ilog2(AsU32(self)) + 1 IN div_ceil(bits, 7)

(***************************************************************************)
(* MString<N> (datatypes.rs 79-129).  A string is its UTF-8 byte sequence, *)
(* so String::len() is Len.                                                *)
(***************************************************************************)
IsCont(b) == b >= 128 /\ b <= 191

\* the length of the character a lead byte starts; 0 for a byte that starts none
Utf8Width(h) ==
    CASE h <= 127 -> 1
      [] h >= 194 /\ h <= 223 -> 2
      [] h >= 224 /\ h <= 239 -> 3
      [] h >= 240 /\ h <= 244 -> 4
      [] OTHER -> 0

\* String::from_utf8(buf) succeeds: buf is well-formed UTF-8.  Every byte either
\* starts a character that is complete, or continues the character started at
\* most three bytes before it.
Utf8Valid(b) ==
    \A i \in 1..Len(b) :
        IF IsCont(b[i])
        THEN \E j \in 1..3 :
                /\ i - j >= 1
                /\ Utf8Width(b[i - j]) > j
                /\ \A k \in 1..(j - 1) : IsCont(b[i - k])
        ELSE /\ Utf8Width(b[i]) > 0
             /\ i + Utf8Width(b[i]) - 1 <= Len(b)
             /\ \A k \in 1..(Utf8Width(b[i]) - 1) : IsCont(b[i + k])
             /\ (b[i] = 224 => b[i + 1] >= 160)
             /\ (b[i] = 237 => b[i + 1] <= 159)
             /\ (b[i] = 240 => b[i + 1] >= 144)
             /\ (b[i] = 244 => b[i + 1] <= 143)

\* TryFrom<String> for MString<N>
MString_try_from(N, value) ==
    IF Len(value) > N THEN Err("malformed", <<>>) ELSE Ok(value, <<>>)

\* MString::decode once its length prefix is decoded, and once its bytes are read
MString_decode_buf(buf) ==
    IF ~buf.ok THEN buf
    ELSE IF ~Utf8Valid(buf.val) THEN Err("malformed", buf.rest)
    ELSE Ok(buf.val, buf.rest)

MString_decode_len(N, len) ==
    CASE ~len.ok -> len
      [] len.val < 0 -> Err("malformed", len.rest)
      [] len.val > N -> Err("malformed", len.rest)
      [] OTHER -> MString_decode_buf(read_exact(len.val, len.rest))

MString_decode(N, r) == MString_decode_len(N, VarInt_decode(r))

\* a limit counted in characters: the bytes that start one
MString_encode_chars(N, self) ==
    IF Cardinality({i \in 1..Len(self) : ~IsCont(self[i])}) > N
    THEN WriteErr("malformed", <<>>)
    ELSE Then(VarInt_encode(Len(self)), Wrote(self))

MString_encode(N, self) ==
    IF Len(self) > N THEN WriteErr("malformed", <<>>)
    ELSE Then(VarInt_encode(Len(self)), Wrote(self))

MString_num_bytes(self) == VarInt_num_bytes(Len(self)) + Len(self)

(***************************************************************************)
(* Fixed-width numerics (datatypes.rs 131-169) and bool (174-196).         *)
(* u8, i8, u16, i16 and i32 values are integers; the wider ones (and the   *)
(* floats' bit patterns) are sequences of 16-bit limbs, most significant   *)
(* first.                                                                  *)
(***************************************************************************)
\* <$int>::BITS as usize / 8, and the literal 4 and 8 of f32 and f64
num_width(name) ==
    CASE name \in {"u8", "i8"} -> 1
      [] name \in {"u16", "i16"} -> 2
      [] name \in {"u32", "i32", "f32"} -> 4
      [] name \in {"u64", "i64", "f64"} -> 8
      [] name \in {"u128", "i128"} -> 16

IsLimbed(name) == name \in {"u32", "f32", "u64", "i64", "f64", "u128", "i128"}

\* the bytes of a limb sequence, and the limbs of a byte sequence of even length
LimbsToBytes(l) ==
    [i \in 1..(2 * Len(l)) |->
        IF i % 2 = 1 THEN l[(i + 1) \div 2] \div 256 ELSE l[i \div 2] % 256]

BytesToLimbs(b) == [i \in 1..(Len(b) \div 2) |-> b[2 * i - 1] * 256 + b[2 * i]]

to_be_bytes(name, v) ==
    CASE name \in {"u8", "i8"} -> <<v % 256>>
      [] name \in {"u16", "i16"} -> <<(v \div 256) % 256, v % 256>>
      [] name = "i32" -> LimbsToBytes(<<AsU32(v).hi, AsU32(v).lo>>)
      [] OTHER -> LimbsToBytes(v)

from_be_bytes(name, b) ==
    CASE name = "u8" -> b[1]
      [] name = "i8" -> IF b[1] >= 128 THEN b[1] - 256 ELSE b[1]
      [] name = "u16" -> b[1] * 256 + b[2]
      [] name = "i16" -> IF b[1] >= 128 THEN b[1] * 256 + b[2] - 65536 ELSE b[1] * 256 + b[2]
      [] name = "i32" -> AsI32([hi |-> b[1] * 256 + b[2], lo |-> b[3] * 256 + b[4]])
      [] OTHER -> BytesToLimbs(b)

num_decode(name, r) ==
    IF Len(r) < num_width(name) THEN Err("eof", <<>>)
    ELSE Ok(from_be_bytes(name, SubSeq(r, 1, num_width(name))),
            SubSeq(r, num_width(name) + 1, Len(r)))

\* the bytes of to_le_bytes
num_encode_le(name, self) ==
    Wrote([i \in 1..num_width(name) |-> to_be_bytes(name, self)[num_width(name) + 1 - i]])

num_encode(name, self) == Wrote(to_be_bytes(name, self))

num_num_bytes(name) == num_width(name)

bool_decode(r) ==
    CASE Len(r) < 1 -> Err("eof", <<>>)
      [] r[1] = 0 -> Ok(FALSE, Tail(r))
      [] r[1] = 1 -> Ok(TRUE, Tail(r))
      [] OTHER -> Err("malformed", Tail(r))

bool_encode(self) == Wrote(<<IF self THEN 1 ELSE 0>>)

bool_num_bytes == 1

(***************************************************************************)
(* Type descriptors.  The codec is a trait (MinecraftData, datatypes.rs    *)
(* 11-15) implemented per type; here a type is a record whose field k      *)
(* names the implementation and decode / encode / num_bytes dispatch on    *)
(* it.  Values: a Vec is a sequence, an Option is <<>> (None) or <<v>>     *)
(* (Some(v)), a struct is a record of its fields, a unit-only enum is the  *)
(* name of its variant.                                                    *)
(***************************************************************************)
T_VarInt == [k |-> "VarInt"]

T_MString(N) == [k |-> "MString", n |-> N]

T_num(name) == [k |-> "num", name |-> name]

T_bool == [k |-> "bool"]

T_Vec(T) == [k |-> "Vec", t |-> T]

T_Option(T) == [k |-> "Option", t |-> T]

T_UnimplementedData == [k |-> "UnimplementedData"]

T_IDSet == [k |-> "IDSet"]

T_SlotDisplay == [k |-> "SlotDisplay"]

\* a field of a derived struct; cond is its #[present_if(..)] expression, "" without one
Field(name, ty) == [name |-> name, ty |-> ty, cond |-> ""]

FieldIf(name, ty, cond) == [name |-> name, ty |-> ty, cond |-> cond]

T_struct(fields) == [k |-> "struct", fields |-> fields]

\* a derived struct that implements Packet with `const ID`
T_packet(ID, fields) == [k |-> "struct", ID |-> ID, fields |-> fields]

\* a variant of a derived unit-only enum with its #[mc_repr(VarInt(repr))]
Variant(name, repr) == [name |-> name, repr |-> repr]

T_enum(variants) == [k |-> "enum", variants |-> variants]

Some(v) == <<v>>

None == <<>>

\* `x as usize` of an i32: a negative x sign-extends to 2^64 + x, far above isize::MAX
AsUsize(x) == [wrapped |-> x < 0, n |-> x]

RECURSIVE decode(_, _)
RECURSIVE encode(_, _)
RECURSIVE num_bytes(_, _)

(***************************************************************************)
(* Arrays, Vec<T> and Option<T> (datatypes.rs 198-279).                    *)
(***************************************************************************)
\* the loop `for _ in 0..len { res.push(T::decode(reader)?) }` with n iterations
\* to go, acc = Ok(res, r) so far; an error ends the loop where it occurs
RECURSIVE decode_array_loop(_, _, _)
decode_array_push(T, n, acc, elem) ==
    IF ~elem.ok THEN elem
    ELSE decode_array_loop(T, n - 1, Ok(Append(acc.val, elem.val), elem.rest))

decode_array_loop(T, n, acc) ==
    IF n = 0 THEN acc ELSE decode_array_push(T, n, acc, decode(T, acc.rest))

\* Vec::with_capacity(len) panics with "capacity overflow" for a wrapped-around len
decode_array(T, len, r) ==
    IF len.wrapped THEN Err("panic", r) ELSE decode_array_loop(T, len.n, Ok(<<>>, r))

\* `for elem in data { elem.encode(writer)? }` over data[lo..hi], as two halves
RECURSIVE encode_array_range(_, _, _, _)
encode_array_range(T, data, lo, hi) ==
    IF lo > hi THEN Wrote(<<>>)
    ELSE IF lo = hi THEN encode(T, data[lo])
    ELSE Then(encode_array_range(T, data, lo, (lo + hi) \div 2),
              encode_array_range(T, data, (lo + hi) \div 2 + 1, hi))

encode_array(T, data) == encode_array_range(T, data, 1, Len(data))

\* data.map(num_bytes).sum() over data[lo..hi], as two halves
RECURSIVE num_bytes_array_range(_, _, _, _)
num_bytes_array_range(T, data, lo, hi) ==
    IF lo > hi THEN 0
    ELSE IF lo = hi THEN num_bytes(T, data[lo])
    ELSE num_bytes_array_range(T, data, lo, (lo + hi) \div 2)
            + num_bytes_array_range(T, data, (lo + hi) \div 2 + 1, hi)

num_bytes_array(T, data) == num_bytes_array_range(T, data, 1, Len(data))

Vec_decode_len(T, len) ==
    IF ~len.ok THEN len ELSE decode_array(T, AsUsize(len.val), len.rest)

Vec_decode(T, r) == Vec_decode_len(T, VarInt_decode(r))

Vec_encode(T, self) == Then(VarInt_encode(Len(self)), encode_array(T, self))

Vec_num_bytes(T, self) == VarInt_num_bytes(Len(self)) + num_bytes_array(T, self)

Option_decode_some(v) == IF ~v.ok THEN v ELSE Ok(Some(v.val), v.rest)

Option_decode_present(T, is_present) ==
    CASE ~is_present.ok -> is_present
      [] is_present.val -> Option_decode_some(decode(T, is_present.rest))
      [] OTHER -> Ok(None, is_present.rest)

Option_decode(T, r) == Option_decode_present(T, bool_decode(r))

Option_encode(T, self) ==
    IF self # None THEN Then(bool_encode(TRUE), encode(T, self[1])) ELSE bool_encode(FALSE)

Option_num_bytes(T, self) == IF self # None THEN 1 + num_bytes(T, self[1]) ELSE 1

(***************************************************************************)
(* #[derive(MinecraftData)] (minecraft-derive/src/lib.rs).                 *)
(***************************************************************************)
\* the predicates with Slot's `count.0 > 0` taken as `count.0 >= 0`
present_if_from_zero(cond, self) ==
    CASE cond = "count.0 > 0" -> self.count >= 0
      [] cond = "num_components_add.is_some_and(|x| x.0 > 0)" ->
            self.num_components_add # None /\ self.num_components_add[1] > 0
      [] cond = "num_components_remove.is_some_and(|x| x.0 > 0)" ->
            self.num_components_remove # None /\ self.num_components_remove[1] > 0
      [] cond = "has_death_location" -> self.has_death_location

\* the #[present_if(..)] expressions of the crate, over the fields decoded so far
present_if(cond, self) ==
    CASE cond = "count.0 > 0" -> self.count > 0
      [] cond = "num_components_add.is_some_and(|x| x.0 > 0)" ->
            self.num_components_add # None /\ self.num_components_add[1] > 0
      [] cond = "num_components_remove.is_some_and(|x| x.0 > 0)" ->
            self.num_components_remove # None /\ self.num_components_remove[1] > 0
      [] cond = "has_death_location" -> self.has_death_location

\* optional_type(&f.ty): the T of a field declared Option<T>
optional_type(ty) == ty.t

\* what `let #ident: #ty = #rvalue;` adds to acc = Ok(self, r), given the field's
\* decode v (wrapped in Some for a predicated field)
decode_line(acc, name, v, wrap) ==
    IF ~v.ok THEN v
    ELSE Ok(acc.val @@ (name :> IF wrap THEN Some(v.val) ELSE v.val), v.rest)

\* decode_lines lo..hi in declaration order, from acc on; a range of several
\* lines is run as two halves, one after the other
RECURSIVE struct_decode_fields(_, _, _, _)
\* an absent field that takes a byte of the stream, as Option<T>::decode would
struct_decode_fields_absent_byte(fields, lo, hi, acc) ==
    CASE lo > hi -> acc
      [] lo < hi ->
            LET half == struct_decode_fields(fields, lo, (lo + hi) \div 2, acc) IN
            IF ~half.ok THEN half
            ELSE struct_decode_fields(fields, (lo + hi) \div 2 + 1, hi, half)
      [] fields[lo].cond = "" ->
            decode_line(acc, fields[lo].name, decode(fields[lo].ty, acc.rest), FALSE)
      [] present_if(fields[lo].cond, acc.val) ->
            decode_line(acc, fields[lo].name,
                        decode(optional_type(fields[lo].ty), acc.rest), TRUE)
      [] OTHER -> Ok(acc.val @@ (fields[lo].name :> None), SubSeq(acc.rest, 2, Len(acc.rest)))

struct_decode_fields(fields, lo, hi, acc) ==
    CASE lo > hi -> acc
      [] lo < hi ->
            LET half == struct_decode_fields(fields, lo, (lo + hi) \div 2, acc) IN
            IF ~half.ok THEN half
            ELSE struct_decode_fields(fields, (lo + hi) \div 2 + 1, hi, half)
      [] fields[lo].cond = "" ->
            decode_line(acc, fields[lo].name, decode(fields[lo].ty, acc.rest), FALSE)
      [] present_if(fields[lo].cond, acc.val) ->
            decode_line(acc, fields[lo].name,
                        decode(optional_type(fields[lo].ty), acc.rest), TRUE)
      [] OTHER -> Ok(acc.val @@ (fields[lo].name :> None), acc.rest)

struct_decode(fields, r) == struct_decode_fields(fields, 1, Len(fields), Ok(<<>>, r))

\* encode_lines lo..hi
RECURSIVE struct_encode_fields(_, _, _, _)
struct_encode_fields(fields, lo, hi, self) ==
    CASE lo > hi -> Wrote(<<>>)
      [] lo < hi ->
            Then(struct_encode_fields(fields, lo, (lo + hi) \div 2, self),
                 struct_encode_fields(fields, (lo + hi) \div 2 + 1, hi, self))
      [] fields[lo].cond = "" -> encode(fields[lo].ty, self[fields[lo].name])
      [] self[fields[lo].name] # None ->
            encode(optional_type(fields[lo].ty), self[fields[lo].name][1])
      [] OTHER -> Wrote(<<>>)

struct_encode(fields, self) == struct_encode_fields(fields, 1, Len(fields), self)

\* num_bytes_lines lo..hi
RECURSIVE struct_num_bytes_fields(_, _, _, _)
struct_num_bytes_fields(fields, lo, hi, self) ==
    CASE lo > hi -> 0
      [] lo < hi ->
            struct_num_bytes_fields(fields, lo, (lo + hi) \div 2, self)
                + struct_num_bytes_fields(fields, (lo + hi) \div 2 + 1, hi, self)
      [] fields[lo].cond = "" -> num_bytes(fields[lo].ty, self[fields[lo].name])
      [] self[fields[lo].name] # None ->
            num_bytes(optional_type(fields[lo].ty), self[fields[lo].name][1])
      [] OTHER -> 0

struct_num_bytes(fields, self) == struct_num_bytes_fields(fields, 1, Len(fields), self)

\* the variant's #[mc_repr]
enum_repr(variants, self) ==
    variants[CHOOSE i \in 1..Len(variants) : variants[i].name = self].repr

enum_decode_repr(variants, repr) ==
    CASE ~repr.ok -> repr
      [] \E i \in 1..Len(variants) : variants[i].repr = repr.val ->
            Ok(variants[CHOOSE i \in 1..Len(variants) : variants[i].repr = repr.val].name,
               repr.rest)
      [] OTHER -> Err("malformed", repr.rest)

enum_decode(variants, r) == enum_decode_repr(variants, VarInt_decode(r))

enum_encode(variants, self) == VarInt_encode(enum_repr(variants, self))

enum_num_bytes(variants, self) == VarInt_num_bytes(enum_repr(variants, self))

(***************************************************************************)
(* Domain types (datatypes.rs 129, 171-172, 281-500).                      *)
(***************************************************************************)
Identifier == T_MString(32767)

UUID == T_struct(<<Field("0", T_num("u128"))>>)

GameProfileProperty ==
    T_struct(<<Field("name", T_MString(64)),
               Field("value", T_MString(32767)),
               Field("signature", T_Option(T_MString(1024)))>>)

GameProfile ==
    T_struct(<<Field("uuid", UUID),
               Field("username", T_MString(16)),
               Field("properties", T_Vec(GameProfileProperty))>>)

Tag == T_struct(<<Field("name", Identifier), Field("entries", T_Vec(T_VarInt))>>)

Position == T_struct(<<Field("0", T_num("i64"))>>)

Slot ==
    T_struct(<<Field("count", T_VarInt),
               FieldIf("id", T_Option(T_VarInt), "count.0 > 0"),
               FieldIf("num_components_add", T_Option(T_VarInt), "count.0 > 0"),
               FieldIf("num_components_remove", T_Option(T_VarInt), "count.0 > 0"),
               FieldIf("components_add", T_Option(T_UnimplementedData),
                       "num_components_add.is_some_and(|x| x.0 > 0)"),
               FieldIf("components_remove", T_Option(T_UnimplementedData),
                       "num_components_remove.is_some_and(|x| x.0 > 0)")>>)

\* unimplemented!(..): every operation of UnimplementedData panics
UnimplementedData_decode(r) == Err("panic", r)

UnimplementedData_encode == WriteErr("panic", <<>>)

\* num_bytes panics and so has no number to return; no value of the model holds a
\* Some(UnimplementedData), which only hand-written code could construct
UnimplementedData_num_bytes == "panic"

\* Ok(Self::Variant(v)) of a decoded v: the value [tag |-> variant, v |-> v]
Tagged(variant, res) ==
    IF ~res.ok THEN res ELSE Ok([tag |-> variant, v |-> res.val], res.rest)

\* `len - 1` of a nonzero usize; a wrapped len stays above isize::MAX and keeps its n
usize_pred(len) == [wrapped |-> len.wrapped, n |-> IF len.wrapped THEN len.n ELSE len.n - 1]

\* an IDSet is [tag |-> "Named", v |-> identifier] or [tag |-> "Enumerated", v |-> ids]
IDSet_decode_len(len) ==
    CASE ~len.ok -> len
      [] AsUsize(len.val) = AsUsize(0) -> Tagged("Named", decode(Identifier, len.rest))
      [] OTHER ->
            Tagged("Enumerated",
                   decode_array(T_VarInt, usize_pred(AsUsize(len.val)), len.rest))

IDSet_decode(r) == IDSet_decode_len(VarInt_decode(r))

IDSet_encode(self) ==
    IF self.tag = "Named"
    THEN Then(VarInt_encode(0), encode(Identifier, self.v))
    ELSE Then(VarInt_encode(Len(self.v) + 1), encode_array(T_VarInt, self.v))

IDSet_num_bytes(self) ==
    IF self.tag = "Named"
    THEN VarInt_num_bytes(0) + num_bytes(Identifier, self.v)
    ELSE VarInt_num_bytes(Len(self.v) + 1) + num_bytes_array(T_VarInt, self.v)

\* a SlotDisplay is a record with its variant's name in tag and the variant's
\* fields (the field `tag` of the variant Tag is tag_); a variant's fields are
\* decoded one after the other, into the record
\* a variant whose fields are read last to first
SlotDisplay_variant_backwards(variant, fields, d) ==
    struct_decode_fields([k \in 1..Len(fields) |-> fields[Len(fields) + 1 - k]],
                         1, Len(fields), Ok([tag |-> variant], d.rest))

SlotDisplay_variant(variant, fields, d) ==
    struct_decode_fields(fields, 1, Len(fields), Ok([tag |-> variant], d.rest))

SlotDisplay_decode_match(d) ==
    CASE ~d.ok -> d
      [] d.val = 0 -> Ok([tag |-> "Empty"], d.rest)
      [] d.val = 1 -> Ok([tag |-> "AnyFuel"], d.rest)
      [] d.val = 2 -> SlotDisplay_variant("Item", <<Field("item_type", T_VarInt)>>, d)
      [] d.val = 3 -> SlotDisplay_variant("ItemStack", <<Field("item_stack", Slot)>>, d)
      [] d.val = 4 -> SlotDisplay_variant("Tag", <<Field("tag_", Identifier)>>, d)
      [] d.val = 5 ->
            SlotDisplay_variant("SmithingTrim",
                                <<Field("base", T_SlotDisplay),
                                  Field("material", T_SlotDisplay),
                                  Field("pattern", T_VarInt)>>, d)
      [] d.val = 6 ->
            SlotDisplay_variant("WithRemainder",
                                <<Field("ingredient", T_SlotDisplay),
                                  Field("remainder", T_SlotDisplay)>>, d)
      [] d.val = 7 ->
            SlotDisplay_variant("Composite", <<Field("options", T_Vec(T_SlotDisplay))>>, d)
      [] OTHER -> Err("malformed", d.rest)

SlotDisplay_decode(r) == SlotDisplay_decode_match(VarInt_decode(r))

SlotDisplay_encode(self) ==
    CASE self.tag = "Empty" -> VarInt_encode(0)
      [] self.tag = "AnyFuel" -> VarInt_encode(1)
      [] self.tag = "Item" -> Then(VarInt_encode(2), VarInt_encode(self.item_type))
      [] self.tag = "ItemStack" -> Then(VarInt_encode(3), encode(Slot, self.item_stack))
      [] self.tag = "Tag" -> Then(VarInt_encode(4), encode(Identifier, self.tag_))
      [] self.tag = "SmithingTrim" ->
            Then(Then(Then(VarInt_encode(5), encode(T_SlotDisplay, self.base)),
                      encode(T_SlotDisplay, self.material)),
                 VarInt_encode(self.pattern))
      [] self.tag = "WithRemainder" ->
            Then(Then(VarInt_encode(6), encode(T_SlotDisplay, self.ingredient)),
                 encode(T_SlotDisplay, self.remainder))
      [] self.tag = "Composite" ->
            Then(VarInt_encode(7), encode(T_Vec(T_SlotDisplay), self.options))

SlotDisplay_num_bytes(self) ==
    CASE self.tag = "Empty" -> VarInt_num_bytes(0)
      [] self.tag = "AnyFuel" -> VarInt_num_bytes(1)
      [] self.tag = "Item" -> VarInt_num_bytes(2) + VarInt_num_bytes(self.item_type)
      [] self.tag = "ItemStack" -> VarInt_num_bytes(3) + num_bytes(Slot, self.item_stack)
      [] self.tag = "Tag" -> VarInt_num_bytes(4) + num_bytes(Identifier, self.tag_)
      [] self.tag = "SmithingTrim" ->
            VarInt_num_bytes(5) + num_bytes(T_SlotDisplay, self.base)
                + num_bytes(T_SlotDisplay, self.material) + VarInt_num_bytes(self.pattern)
      [] self.tag = "WithRemainder" ->
            VarInt_num_bytes(6) + num_bytes(T_SlotDisplay, self.ingredient)
                + num_bytes(T_SlotDisplay, self.remainder)
      [] self.tag = "Composite" ->
            VarInt_num_bytes(7) + num_bytes(T_Vec(T_SlotDisplay), self.options)

(***************************************************************************)
(* Packets (packet.rs 40-382).                                             *)
(***************************************************************************)
HandshakeIntent ==
    T_enum(<<Variant("Status", 1), Variant("Login", 2), Variant("Transfer", 3)>>)

HandshakePacket ==
    T_packet(0, <<Field("protocol_version", T_VarInt),
                  Field("server_address", T_MString(255)),
                  Field("server_port", T_num("u16")),
                  Field("intent", HandshakeIntent)>>)

StatusRequestPacket == T_packet(0, <<>>)

StatusResponsePacket == T_packet(0, <<Field("json_response", T_MString(32767))>>)

LoginStartPacket == T_packet(0, <<Field("name", T_MString(16)), Field("uuid", UUID)>>)

EncryptionRequestPacket ==
    T_packet(1, <<Field("server_id", T_MString(20)),
                  Field("public_key", T_Vec(T_num("u8"))),
                  Field("verify_token", T_Vec(T_num("u8"))),
                  Field("should_authenticate", T_bool)>>)

LoginSuccessPacket == T_packet(2, <<Field("client", GameProfile)>>)

LoginAcknowledgedPacket == T_packet(3, <<>>)

\* "minecraft:brand"
minecraft_brand == <<109, 105, 110, 101, 99, 114, 97, 102, 116, 58, 98, 114, 97, 110, 100>>

\* a PluginChannelData is [tag |-> "MinecraftBrand", v |-> brand] or
\* [tag |-> "Unknown", v |-> channel]
PluginChannelData_identifier(self) ==
    IF self.tag = "MinecraftBrand"
    THEN MString_try_from(32767, minecraft_brand).val
    ELSE self.v

ClientboundConfigurationPluginMessagePacket == [k |-> "PluginMessage", ID |-> 1]

\* Ok(Self { data }) of a decoded data
PluginMessage_data(data) ==
    IF ~data.ok THEN data ELSE Ok([data |-> data.val], data.rest)

ClientboundConfigurationPluginMessagePacket_channel(channel) ==
    CASE ~channel.ok -> channel
      [] channel.val = minecraft_brand ->
            PluginMessage_data(Tagged("MinecraftBrand", decode(T_MString(32767), channel.rest)))
      [] OTHER -> Ok([data |-> [tag |-> "Unknown", v |-> channel.val]], channel.rest)

ClientboundConfigurationPluginMessagePacket_decode(r) ==
    ClientboundConfigurationPluginMessagePacket_channel(decode(Identifier, r))

ClientboundConfigurationPluginMessagePacket_encode(self) ==
    Then(encode(Identifier, PluginChannelData_identifier(self.data)),
         IF self.data.tag = "MinecraftBrand"
         THEN encode(T_MString(32767), self.data.v)
         ELSE Wrote(<<>>))

ClientboundConfigurationPluginMessagePacket_num_bytes(self) ==
    num_bytes(Identifier, PluginChannelData_identifier(self.data))
        + (IF self.data.tag = "MinecraftBrand"
           THEN num_bytes(T_MString(32767), self.data.v)
           ELSE 0)

FeatureFlagsPacket == T_packet(12, <<Field("feature_flags", T_Vec(Identifier))>>)

DataPack ==
    T_struct(<<Field("namespace", T_MString(32767)),
               Field("id", T_MString(32767)),
               Field("version", T_MString(32767))>>)

ClientboundKnownPacksPacket == T_packet(14, <<Field("known_packs", T_Vec(DataPack))>>)

ServerboundKnownPacksPacket == T_packet(7, <<Field("known_packs", T_Vec(DataPack))>>)

ConfigurationKeepAlivePacket == T_packet(4, <<Field("keep_alive_id", T_num("i64"))>>)

RegistryEntry ==
    T_struct(<<Field("id", Identifier), Field("data", T_Option(T_num("u8")))>>)

RegistryDataPacket ==
    T_packet(7, <<Field("registry_id", Identifier), Field("entries", T_Vec(RegistryEntry))>>)

TaggedRegistry == T_struct(<<Field("registry", Identifier), Field("tags", T_Vec(Tag))>>)

ConfigurationUpdateTagsPacket ==
    T_packet(13, <<Field("tagged_registries", T_Vec(TaggedRegistry))>>)

FinishConfigurationPacket == T_packet(3, <<>>)

AcknowledgeFinishConfigurationPacket == T_packet(3, <<>>)

ClientboundPlayKeepAlivePacket == T_packet(43, <<Field("keep_alive_id", T_num("i64"))>>)

ServerboundPlayKeepAlivePacket == T_packet(27, <<Field("keep_alive_id", T_num("i64"))>>)

PlayLoginPacket ==
    T_packet(48, <<Field("entity_id", T_num("i32")),
                   Field("is_hardcore", T_bool),
                   Field("dimension_names", T_Vec(Identifier)),
                   Field("max_players", T_VarInt),
                   Field("view_distance", T_VarInt),
                   Field("simulation_distance", T_VarInt),
                   Field("reduced_debug_info", T_bool),
                   Field("enable_respawn_screen", T_bool),
                   Field("do_limited_crafting", T_bool),
                   Field("dimension_type", T_VarInt),
                   Field("dimension_name", Identifier),
                   Field("hashed_seed", T_num("i64")),
                   Field("game_mode", T_num("u8")),
                   Field("previous_game_mode", T_num("i8")),
                   Field("is_debug", T_bool),
                   Field("is_flat", T_bool),
                   Field("has_death_location", T_bool),
                   FieldIf("death_dimention_name", T_Option(Identifier), "has_death_location"),
                   FieldIf("death_location", T_Option(Position), "has_death_location"),
                   Field("portal_cooldown", T_VarInt),
                   Field("sea_level", T_VarInt),
                   Field("enforced_secure_chat", T_bool)>>)

Difficulty ==
    T_enum(<<Variant("Peaceful", 0), Variant("Easy", 1), Variant("Normal", 2),
             Variant("Hard", 3)>>)

ChangeDifficultyPacket ==
    T_packet(10, <<Field("difficulty", Difficulty), Field("difficulty_locked", T_bool)>>)

ClientboundPlayerAbilitiesPacket ==
    T_packet(62, <<Field("flags", T_num("u8")),
                   Field("flying_speed", T_num("f32")),
                   Field("fov_modifier", T_num("f32"))>>)

SetHealthPacket ==
    T_packet(102, <<Field("health", T_num("f32")),
                    Field("food", T_VarInt),
                    Field("food_saturation", T_num("f32"))>>)

ClientboundSetHeldItemPacket == T_packet(103, <<Field("slot", T_VarInt)>>)

PropertySet == T_struct(<<Field("id", Identifier), Field("items", T_Vec(T_VarInt))>>)

StonecutterRecipe ==
    T_struct(<<Field("ingredients", T_IDSet), Field("slot_display", T_SlotDisplay)>>)

UpdateRecipesPacket ==
    T_packet(131, <<Field("property_sets", T_Vec(PropertySet)),
                    Field("stonecutter_recipes", T_Vec(StonecutterRecipe))>>)

(***************************************************************************)
(* The trait's three operations, dispatched on the type (datatypes.rs      *)
(* 11-15).                                                                 *)
(***************************************************************************)
decode(T, r) ==
    CASE T.k = "VarInt" -> VarInt_decode(r)
      [] T.k = "MString" -> MString_decode(T.n, r)
      [] T.k = "num" -> num_decode(T.name, r)
      [] T.k = "bool" -> bool_decode(r)
      [] T.k = "Vec" -> Vec_decode(T.t, r)
      [] T.k = "Option" -> Option_decode(T.t, r)
      [] T.k = "struct" -> struct_decode(T.fields, r)
      [] T.k = "enum" -> enum_decode(T.variants, r)
      [] T.k = "UnimplementedData" -> UnimplementedData_decode(r)
      [] T.k = "IDSet" -> IDSet_decode(r)
      [] T.k = "SlotDisplay" -> SlotDisplay_decode(r)
      [] T.k = "PluginMessage" -> ClientboundConfigurationPluginMessagePacket_decode(r)

encode(T, self) ==
    CASE T.k = "VarInt" -> VarInt_encode(self)
      [] T.k = "MString" -> MString_encode(T.n, self)
      [] T.k = "num" -> num_encode(T.name, self)
      [] T.k = "bool" -> bool_encode(self)
      [] T.k = "Vec" -> Vec_encode(T.t, self)
      [] T.k = "Option" -> Option_encode(T.t, self)
      [] T.k = "struct" -> struct_encode(T.fields, self)
      [] T.k = "enum" -> enum_encode(T.variants, self)
      [] T.k = "UnimplementedData" -> UnimplementedData_encode
      [] T.k = "IDSet" -> IDSet_encode(self)
      [] T.k = "SlotDisplay" -> SlotDisplay_encode(self)
      [] T.k = "PluginMessage" -> ClientboundConfigurationPluginMessagePacket_encode(self)

num_bytes(T, self) ==
    CASE T.k = "VarInt" -> VarInt_num_bytes(self)
      [] T.k = "MString" -> MString_num_bytes(self)
      [] T.k = "num" -> num_num_bytes(T.name)
      [] T.k = "bool" -> bool_num_bytes
      [] T.k = "Vec" -> Vec_num_bytes(T.t, self)
      [] T.k = "Option" -> Option_num_bytes(T.t, self)
      [] T.k = "struct" -> struct_num_bytes(T.fields, self)
      [] T.k = "enum" -> enum_num_bytes(T.variants, self)
      [] T.k = "UnimplementedData" -> UnimplementedData_num_bytes
      [] T.k = "IDSet" -> IDSet_num_bytes(self)
      [] T.k = "SlotDisplay" -> SlotDisplay_num_bytes(self)
      [] T.k = "PluginMessage" ->
            ClientboundConfigurationPluginMessagePacket_num_bytes(self)

(***************************************************************************)
(* Packet framing (packet.rs 11-38).                                       *)
(***************************************************************************)
decode_packet(P, r) == decode(P, r)

\* a frame whose outer length counts its own byte as well
encode_packet_counting_len(P, self) ==
    Then(Then(VarInt_encode(1 + VarInt_num_bytes(P.ID) + num_bytes(P, self)),
              VarInt_encode(P.ID)),
         encode(P, self))

encode_packet(P, self) ==
    Then(Then(VarInt_encode(VarInt_num_bytes(P.ID) + num_bytes(P, self)),
              VarInt_encode(P.ID)),
         encode(P, self))

\* a header read as id first, len second
PacketHeader_id_first(len, id) ==
    IF ~id.ok THEN id ELSE Ok([len |-> id.val, id |-> len.val], id.rest)

\* a PacketHeader is [len |-> .., id |-> ..], both VarInt values
PacketHeader(len, id) ==
    IF ~id.ok THEN id ELSE Ok([len |-> len.val, id |-> id.val], id.rest)

decode_packet_header_len(len) ==
    IF ~len.ok THEN len ELSE PacketHeader(len, VarInt_decode(len.rest))

decode_packet_header(r) == decode_packet_header_len(VarInt_decode(r))

(***************************************************************************)
(* The connection (connection.rs).  The server is the environment: it      *)
(* puts whole frames on the stream and may close it.  A read that finds    *)
(* too few bytes blocks until the server has sent more or has closed the   *)
(* stream, and then fails with UnexpectedEof; a flush can fail only once   *)
(* the server has closed.                                                  *)
(***************************************************************************)
\* main.rs: the host and port the binary connects to
host == <<108, 111, 99, 97, 108, 104, 111, 115, 116>>

port == 25565

\* "robotabc773"
player_name == <<114, 111, 98, 111, 116, 97, 98, 99, 55, 55, 51>>

\* the blocking read behind a decode has returned: with data, or with an error
Returned(res) == res.ok \/ res.err # "eof" \/ closed

\* what self.writer.flush() can do now
FlushOutcomes == IF closed THEN {TRUE, FALSE} ELSE {TRUE}

\* what the log keeps: a header read ("header", with its len), a packet decoded
\* ("recv") or read raw ("raw"), a packet sent ("send") or whose send failed
\* ("send_err"), and the start of configure() and of play()
Event(ev, id, val) == [ev |-> ev, id |-> id, val |-> val]

\* a send_packet that returns with the frame still in the writer's buffer
send_packet_buffered(P, packet, e, flush_ok) ==
    [ok |-> e.ok /\ flush_ok,
     err |-> IF ~e.ok THEN e.err ELSE IF ~flush_ok THEN "io" ELSE "",
     wbuf |-> wbuf \o e.out,
     wire |-> wire,
     events |-> <<Event(IF e.ok /\ flush_ok THEN "send" ELSE "send_err", P.ID, packet)>>]

\* Connection::send_packet: the frame is encoded into the writer (e is what the
\* encoding wrote) and the writer is flushed; an encode error returns before the
\* flush
send_packet_flush(P, packet, e, flush_ok) ==
    [ok |-> e.ok /\ flush_ok,
     err |-> IF ~e.ok THEN e.err ELSE IF ~flush_ok THEN "io" ELSE "",
     wbuf |-> IF e.ok /\ flush_ok THEN <<>> ELSE wbuf \o e.out,
     wire |-> IF e.ok /\ flush_ok THEN Append(wire, wbuf \o e.out) ELSE wire,
     events |-> <<Event(IF e.ok /\ flush_ok THEN "send" ELSE "send_err", P.ID, packet)>>]

send_packet(P, packet, flush_ok) ==
    send_packet_flush(P, packet, encode_packet(P, packet), flush_ok)

recv_packet_header(r) == decode_packet_header(r)

recv_packet(P, r) == decode_packet(P, r)

\* Connection::recv_packet_raw: `header.len.0 as usize - header.id.len()` bytes.  A
\* negative len casts to more than isize::MAX and a len below the id's size
\* underflows (a panic with overflow checks, a wrapped-around size without): either
\* way vec! panics before anything is read.
recv_packet_raw(header, r) ==
    IF AsUsize(header.len).wrapped \/ header.len < VarInt_num_bytes(header.id)
    THEN Err("panic", r)
    ELSE read_exact(header.len - VarInt_num_bytes(header.id), r)

\* a call that goes on with its next read after an error
ErrPc_resync(call, err) ==
    CASE err = "panic" -> "panicked"
      [] call = "login" -> "login_ok"
      [] call = "configure" -> "configure"
      [] call = "play" -> "play"

ErrPc(call, err) ==
    CASE err = "panic" -> "panicked"
      [] call = "login" -> "login_err"
      [] call = "configure" -> "configure_err"
      [] call = "play" -> "play_err"

\* the client's step: where it goes on, what is left unread, what it logged and wrote
Step(to, rest, events, wb, wr) ==
    /\ pc' = to
    /\ rx' = rest
    /\ log' = log \o events
    /\ wbuf' = wb
    /\ wire' = wr
    /\ UNCHANGED <<closed, nsent, job, out>>

\* a decode or raw read failed: the call returns the error (or panics)
Fail(call, res, events) == Step(ErrPc(call, res.err), res.rest, events, wbuf, wire)

\* the outcome s of a handler's send_packet(..)?: on success the call goes on at `to`
Sent(call, to, rest, events, s) ==
    Step(IF s.ok THEN to ELSE ErrPc(call, s.err), rest, events \o s.events, s.wbuf, s.wire)

Send(call, to, rest, events, P, packet) ==
    \E flush_ok \in FlushOutcomes :
        Sent(call, to, rest, events, send_packet(P, packet, flush_ok))

\* what a handler logs of the header it has read
header_event(resp_header) ==
    <<Event("header", resp_header.val.id, resp_header.val.len)>>

\* a handler that, after resp, skips what is left of the len - size(id) bytes the
\* header announced
Ingest_draining(call, to, resp_header, kind, resp) ==
    /\ Returned(resp)
    /\ IF ~resp.ok THEN Fail(call, resp, header_event(resp_header))
       ELSE Step(to,
                 IF Len(resp_header.rest) - Len(resp.rest)
                        < resp_header.val.len - VarInt_num_bytes(resp_header.val.id)
                 THEN SubSeq(resp_header.rest,
                             resp_header.val.len - VarInt_num_bytes(resp_header.val.id) + 1,
                             Len(resp_header.rest))
                 ELSE resp.rest,
                 header_event(resp_header)
                     \o <<Event(kind, resp_header.val.id, resp.val)>>,
                 wbuf, wire)

\* a handler has read resp_header and then resp (typed, kind = "recv", or raw, kind =
\* "raw"), with `?` on both, and does nothing else with them: it goes on at `to`
Ingest(call, to, resp_header, kind, resp) ==
    /\ Returned(resp)
    /\ IF ~resp.ok THEN Fail(call, resp, header_event(resp_header))
       ELSE Step(to, resp.rest,
                 header_event(resp_header)
                     \o <<Event(kind, resp_header.val.id, resp.val)>>,
                 wbuf, wire)

\* a handler has read resp_header and then the packet resp, and answers with the
\* packet `packet` of type P
Reply(call, to, resp_header, resp, P, packet) ==
    /\ Returned(resp)
    /\ IF ~resp.ok THEN Fail(call, resp, header_event(resp_header))
       ELSE Send(call, to, resp.rest,
                 header_event(resp_header)
                     \o <<Event("recv", resp_header.val.id, resp.val)>>,
                 P, packet)

\* recv_packet_header()? failed
HeaderErr(call, resp_header) ==
    /\ ~resp_header.ok
    /\ Returned(resp_header)
    /\ Fail(call, resp_header, <<>>)

(***************************************************************************)
(* Connection::login (connection.rs 87-119)                                *)
(***************************************************************************)
login_handshake(server_address) ==
    IF ~server_address.ok THEN Fail("login", Err(server_address.err, rx), <<>>)
    ELSE Send("login", "login_handshake_sent", rx, <<>>, HandshakePacket,
              [protocol_version |-> 773, server_address |-> server_address.val,
               server_port |-> port, intent |-> "Login"])

login_send_handshake ==
    /\ pc = "connected"
    /\ login_handshake(MString_try_from(255, host))

login_login_start(name) ==
    IF ~name.ok THEN Fail("login", Err(name.err, rx), <<>>)
    ELSE Send("login", "login_start_sent", rx, <<>>, LoginStartPacket,
              [name |-> name.val, uuid |-> ("0" :> <<0, 0, 0, 0, 0, 0, 0, 0>>)])

login_send_login_start ==
    /\ pc = "login_handshake_sent"
    /\ login_login_start(MString_try_from(16, player_name))

\* the header's id is not looked at: whatever follows is decoded as LoginSuccess
login_resp(resp_header, resp) ==
    IF ~resp_header.ok THEN HeaderErr("login", resp_header)
    ELSE Reply("login", "login_ok", resp_header, resp, LoginAcknowledgedPacket, <<>>)

login_recv ==
    /\ pc = "login_start_sent"
    /\ login_resp(recv_packet_header(rx),
                  recv_packet(LoginSuccessPacket, recv_packet_header(rx).rest))

(***************************************************************************)
(* Connection::configure (connection.rs 121-173): one action per arm of    *)
(* the loop's match, each a whole iteration from the header on.            *)
(***************************************************************************)
\* the loop is at its top and the header read has returned a header with this id
configure_arm(ID, resp_header) ==
    pc = "configure" /\ resp_header.ok /\ resp_header.val.id = ID

\* an arm that decodes the packet and prints it
configure_ingest(P, resp_header) ==
    /\ configure_arm(P.ID, resp_header)
    /\ Ingest("configure", "configure", resp_header, "recv",
              recv_packet(P, resp_header.rest))

configure_header_err ==
    /\ pc = "configure"
    /\ HeaderErr("configure", recv_packet_header(rx))

configure_plugin_message ==
    configure_ingest(ClientboundConfigurationPluginMessagePacket, recv_packet_header(rx))

configure_feature_flags == configure_ingest(FeatureFlagsPacket, recv_packet_header(rx))

\* a reply that lists the received packs last to first
configure_known_packs_resp_reversed(resp_header, resp) ==
    /\ configure_arm(ClientboundKnownPacksPacket.ID, resp_header)
    /\ Reply("configure", "configure", resp_header, resp,
             ServerboundKnownPacksPacket,
             [known_packs |->
                 [k \in 1..Len(resp.val.known_packs) |->
                     resp.val.known_packs[Len(resp.val.known_packs) + 1 - k]]])

configure_known_packs_resp(resp_header, resp) ==
    /\ configure_arm(ClientboundKnownPacksPacket.ID, resp_header)
    /\ Reply("configure", "configure", resp_header, resp,
             ServerboundKnownPacksPacket, [known_packs |-> resp.val.known_packs])

configure_known_packs ==
    configure_known_packs_resp(
        recv_packet_header(rx),
        recv_packet(ClientboundKnownPacksPacket, recv_packet_header(rx).rest))

\* a reply that carries an id of the client's own instead of the received one
configure_keep_alive_resp_own_id(resp_header, resp) ==
    /\ configure_arm(ConfigurationKeepAlivePacket.ID, resp_header)
    /\ Reply("configure", "configure", resp_header, resp,
             ConfigurationKeepAlivePacket, [keep_alive_id |-> <<0, 0, 0, 0>>])

configure_keep_alive_resp(resp_header, resp) ==
    /\ configure_arm(ConfigurationKeepAlivePacket.ID, resp_header)
    /\ Reply("configure", "configure", resp_header, resp,
             ConfigurationKeepAlivePacket, [keep_alive_id |-> resp.val.keep_alive_id])

configure_keep_alive ==
    configure_keep_alive_resp(
        recv_packet_header(rx),
        recv_packet(ConfigurationKeepAlivePacket, recv_packet_header(rx).rest))

configure_raw(to, resp_header) ==
    Ingest("configure", to, resp_header, "raw",
           recv_packet_raw(resp_header.val, resp_header.rest))

configure_registry_data ==
    /\ configure_arm(RegistryDataPacket.ID, recv_packet_header(rx))
    /\ configure_raw("configure", recv_packet_header(rx))

configure_update_tags ==
    configure_ingest(ConfigurationUpdateTagsPacket, recv_packet_header(rx))

configure_finish_resp(resp_header, resp) ==
    /\ configure_arm(FinishConfigurationPacket.ID, resp_header)
    /\ Reply("configure", "configure_ok", resp_header, resp,
             AcknowledgeFinishConfigurationPacket, <<>>)

configure_finish ==
    configure_finish_resp(
        recv_packet_header(rx),
        recv_packet(FinishConfigurationPacket, recv_packet_header(rx).rest))

\* the ids the match of configure() has an arm for
configure_ids ==
    {ClientboundConfigurationPluginMessagePacket.ID, FeatureFlagsPacket.ID,
     ClientboundKnownPacksPacket.ID, ConfigurationKeepAlivePacket.ID, RegistryDataPacket.ID,
     ConfigurationUpdateTagsPacket.ID, FinishConfigurationPacket.ID}

\* the `_` arm: the payload is read raw and printed, and then the loop is left
configure_other_arm(resp_header) ==
    /\ pc = "configure"
    /\ resp_header.ok
    /\ resp_header.val.id \notin configure_ids
    /\ configure_raw("configure_ok", resp_header)

configure_other == configure_other_arm(recv_packet_header(rx))

(***************************************************************************)
(* Connection::play (connection.rs 175-196)                                *)
(***************************************************************************)
play_header_err ==
    /\ pc = "play"
    /\ HeaderErr("play", recv_packet_header(rx))

play_keep_alive_resp(resp_header, resp) ==
    /\ pc = "play"
    /\ resp_header.ok
    /\ resp_header.val.id = ClientboundPlayKeepAlivePacket.ID
    /\ Reply("play", "play", resp_header, resp,
             ServerboundPlayKeepAlivePacket, [keep_alive_id |-> resp.val.keep_alive_id])

play_keep_alive ==
    play_keep_alive_resp(
        recv_packet_header(rx),
        recv_packet(ClientboundPlayKeepAlivePacket, recv_packet_header(rx).rest))

\* the `_` arm: the payload is read raw and dropped, and the loop goes on
play_other_arm(resp_header) ==
    /\ pc = "play"
    /\ resp_header.ok
    /\ resp_header.val.id # ClientboundPlayKeepAlivePacket.ID
    /\ Ingest("play", "play", resp_header, "raw",
              recv_packet_raw(resp_header.val, resp_header.rest))

play_other == play_other_arm(recv_packet_header(rx))

(***************************************************************************)
(* The caller (the binary drives login, then configure, then play) and the *)
(* server.                                                                 *)
(***************************************************************************)
call_configure ==
    /\ pc = "login_ok"
    /\ Step("configure", rx, <<Event("configure", 0, <<>>)>>, wbuf, wire)

call_play ==
    /\ pc = "configure_ok"
    /\ Step("play", rx, <<Event("play", 0, <<>>)>>, wbuf, wire)

\* the most frames the server sends on one connection
MaxFrames == 3

KeepAliveIds == {<<291, 17767, 35243, 52719>>, <<65535, 65535, 65535, 65535>>}

\* a GameProfile payload: uuid 0, username "a", no properties
profile_a ==
    [uuid |-> ("0" :> <<0, 0, 0, 0, 0, 0, 0, 0>>), username |-> <<97>>, properties |-> <<>>]

\* the frames the server may send: well-formed packets of each phase, packets the
\* client has no arm for, and frames whose header or payload is malformed
ServerFrames ==
    {encode_packet(LoginSuccessPacket, [client |-> profile_a]).out,
     \* id 0x01 (EncryptionRequest in Login, PluginMessage in Configuration) over the
     \* bytes of a GameProfile
     <<20, 1>> \o encode(GameProfile, profile_a).out,
     encode_packet(FeatureFlagsPacket, [feature_flags |-> <<<<97>>>>]).out,
     encode_packet(ClientboundKnownPacksPacket,
                   [known_packs |-> <<[namespace |-> <<109>>, id |-> <<99>>,
                                       version |-> <<49>>],
                                      [namespace |-> <<110>>, id |-> <<>>,
                                       version |-> <<50>>]>>]).out,
     encode_packet(ConfigurationUpdateTagsPacket,
                   [tagged_registries |->
                       <<[registry |-> <<114>>,
                          tags |-> <<[name |-> <<116>>, entries |-> <<1>>]>>]>>]).out,
     \* RegistryData: registry "r", one entry "e" with two bytes of NBT
     <<9, 7, 1, 114, 1, 1, 101, 1, 10, 0>>,
     encode_packet(FinishConfigurationPacket, <<>>).out,
     \* a Configuration PluginMessage on the channel "a" with the payload [1, 3]
     <<5, 1, 1, 97, 1, 3>>,
     \* an id neither loop has an arm for, with a payload
     <<3, 5, 7, 7>>,
     \* a header whose len is below the size of its id, and one whose len is negative
     <<0, 5>>,
     <<255, 255, 255, 255, 15, 5>>,
     \* a header whose first VarInt runs past five bytes
     <<128, 128, 128, 128, 128, 1>>}
        \cup {encode_packet(ConfigurationKeepAlivePacket, [keep_alive_id |-> k]).out :
                k \in KeepAliveIds}
        \cup {encode_packet(ClientboundPlayKeepAlivePacket, [keep_alive_id |-> k]).out :
                k \in KeepAliveIds}

server_send ==
    /\ ~closed
    /\ nsent < MaxFrames
    /\ \E frame \in ServerFrames : rx' = rx \o frame
    /\ nsent' = nsent + 1
    /\ UNCHANGED <<pc, closed, wbuf, wire, log, job, out>>

server_close ==
    /\ ~closed
    /\ closed' = TRUE
    /\ UNCHANGED <<pc, rx, wbuf, wire, log, nsent, job, out>>

Init ==
    /\ pc = "connected"
    /\ rx = <<>>
    /\ closed = FALSE
    /\ wbuf = <<>>
    /\ wire = <<>>
    /\ log = <<>>
    /\ nsent = 0
    /\ job = [op |-> "none"]
    /\ out = [done |-> FALSE]

Next ==
    \/ login_send_handshake
    \/ login_send_login_start
    \/ login_recv
    \/ call_configure
    \/ configure_header_err
    \/ configure_plugin_message
    \/ configure_feature_flags
    \/ configure_known_packs
    \/ configure_keep_alive
    \/ configure_registry_data
    \/ configure_update_tags
    \/ configure_finish
    \/ configure_other
    \/ call_play
    \/ play_header_err
    \/ play_keep_alive
    \/ play_other
    \/ server_send
    \/ server_close

Spec == Init /\ [][Next]_vars

(***************************************************************************)
(* The codec on its own: one function of the trait (or encode_packet) is   *)
(* applied to one input.  Init draws the input; the action applies the     *)
(* function.                                                               *)
(***************************************************************************)
\* VarInt values: every v with |v| <= VarIntSpan, the values next to each change
\* of the encoded length, and the ends of the i32 range
VarIntSpan == 2

VarIntValues ==
    (-VarIntSpan..VarIntSpan)
        \cup {127, 128, 255, 300, 16383, 16384, 25565, 2097151, 2097152, 268435455,
              268435456, 2147483647, -128, -129, -32768, -2147483647, -2147483647 - 1}

\* byte streams handed to VarInt::decode: every stream of up to MaxBytes bytes
\* over bytes with and without the continuation bit
MaxBytes == 6

StreamBytes == {0, 15, 127, 128, 255}

Streams == UNION {[1..n -> StreamBytes] : n \in 0..MaxBytes}

\* what follows the bytes under test in a stream
Tails == {<<>>, <<1>>, <<128, 0>>}

str_a == <<97>>

\* 130 bytes of "a": a length that takes a two-byte VarInt
str_long == [i \in 1..130 |-> 97]

slot_empty ==
    [count |-> 0, id |-> None, num_components_add |-> None, num_components_remove |-> None,
     components_add |-> None, components_remove |-> None]

slot_plain ==
    [count |-> 3, id |-> Some(5), num_components_add |-> Some(0),
     num_components_remove |-> Some(0), components_add |-> None, components_remove |-> None]

\* a Slot whose id is Some although its count is 0
slot_odd ==
    [count |-> 0, id |-> Some(5), num_components_add |-> None, num_components_remove |-> None,
     components_add |-> None, components_remove |-> None]

play_login(has_death_location, death_dimention_name, death_location) ==
    [entity_id |-> -7, is_hardcore |-> FALSE, dimension_names |-> <<str_a>>,
     max_players |-> 20, view_distance |-> 300, simulation_distance |-> 8,
     reduced_debug_info |-> FALSE, enable_respawn_screen |-> TRUE,
     do_limited_crafting |-> FALSE, dimension_type |-> 0, dimension_name |-> str_a,
     hashed_seed |-> <<65535, 0, 1, 2>>, game_mode |-> 1, previous_game_mode |-> -1,
     is_debug |-> FALSE, is_flat |-> TRUE, has_death_location |-> has_death_location,
     death_dimention_name |-> death_dimention_name, death_location |-> death_location,
     portal_cooldown |-> 0, sea_level |-> 63, enforced_secure_chat |-> FALSE]

handshake_status ==
    [protocol_version |-> -1, server_address |-> host, server_port |-> port,
     intent |-> "Status"]

\* values with their type, type first
Typed(T, values) == {<<T, v>> : v \in values}

\* packets with their values
PacketValues ==
    Typed(StatusRequestPacket, {<<>>})
        \cup Typed(LoginAcknowledgedPacket, {<<>>})
        \cup Typed(AcknowledgeFinishConfigurationPacket, {<<>>})
        \cup Typed(HandshakePacket,
                   {handshake_status,
                    [protocol_version |-> 773, server_address |-> host,
                     server_port |-> port, intent |-> "Login"]})
        \cup Typed(LoginStartPacket,
                   {[name |-> player_name, uuid |-> ("0" :> <<0, 0, 0, 0, 0, 0, 0, 0>>)]})
        \cup Typed(StatusResponsePacket,
                   {[json_response |-> str_a], [json_response |-> str_long]})
        \cup Typed(LoginSuccessPacket, {[client |-> profile_a]})
        \cup Typed(ClientboundConfigurationPluginMessagePacket,
                   {[data |-> [tag |-> "MinecraftBrand", v |-> str_a]],
                    [data |-> [tag |-> "Unknown", v |-> str_a]]})
        \cup Typed(ServerboundKnownPacksPacket,
                   {[known_packs |-> <<>>],
                    [known_packs |-> <<[namespace |-> str_a, id |-> str_a,
                                        version |-> str_a]>>]})
        \cup Typed(ConfigurationKeepAlivePacket,
                   {[keep_alive_id |-> k] : k \in KeepAliveIds})
        \cup Typed(ServerboundPlayKeepAlivePacket,
                   {[keep_alive_id |-> k] : k \in KeepAliveIds})
        \cup Typed(ChangeDifficultyPacket,
                   {[difficulty |-> "Hard", difficulty_locked |-> TRUE]})
        \cup Typed(SetHealthPacket,
                   {[health |-> <<16800, 0>>, food |-> 20, food_saturation |-> <<0, 0>>]})
        \cup Typed(PlayLoginPacket,
                   {play_login(FALSE, None, None),
                    play_login(TRUE, Some(str_a), Some(("0" :> <<0, 0, 0, 1>>)))})
        \cup Typed(EncryptionRequestPacket,
                   {[server_id |-> <<>>, public_key |-> <<48, 130, 255>>,
                     verify_token |-> <<0, 1, 2, 3>>, should_authenticate |-> TRUE]})
        \cup Typed(FeatureFlagsPacket, {[feature_flags |-> <<>>], [feature_flags |-> <<str_a>>]})
        \cup Typed(ClientboundKnownPacksPacket,
                   {[known_packs |-> <<[namespace |-> str_a, id |-> <<>>,
                                        version |-> str_a]>>]})
        \cup Typed(RegistryDataPacket,
                   {[registry_id |-> str_a,
                     entries |-> <<[id |-> str_a, data |-> None],
                                   [id |-> str_a, data |-> Some(10)]>>]})
        \cup Typed(ConfigurationUpdateTagsPacket,
                   {[tagged_registries |->
                        <<[registry |-> str_a,
                           tags |-> <<[name |-> str_a, entries |-> <<1, 300>>]>>]>>]})
        \cup Typed(ClientboundPlayKeepAlivePacket,
                   {[keep_alive_id |-> k] : k \in KeepAliveIds})
        \cup Typed(ClientboundPlayerAbilitiesPacket,
                   {[flags |-> 6, flying_speed |-> <<15692, 52429>>,
                     fov_modifier |-> <<15820, 52429>>]})
        \cup Typed(ClientboundSetHeldItemPacket, {[slot |-> 8]})
        \cup Typed(UpdateRecipesPacket,
                   {[property_sets |-> <<[id |-> str_a, items |-> <<1, 300>>]>>,
                     stonecutter_recipes |->
                        <<[ingredients |-> [tag |-> "Enumerated", v |-> <<4>>],
                           slot_display |-> [tag |-> "Item", item_type |-> 9]]>>]})

\* Composite{options: [Empty, AnyFuel]}
composite_empty_any_fuel ==
    [tag |-> "Composite", options |-> <<[tag |-> "Empty"], [tag |-> "AnyFuel"]>>]

\* SlotDisplay trees: every variant, and nestings three deep
SlotDisplayTrees ==
    {[tag |-> "Empty"], [tag |-> "AnyFuel"],
     [tag |-> "Item", item_type |-> 300],
     [tag |-> "ItemStack", item_stack |-> slot_empty],
     [tag |-> "ItemStack", item_stack |-> slot_plain],
     [tag |-> "Tag", tag_ |-> str_a],
     [tag |-> "SmithingTrim", base |-> [tag |-> "Empty"],
      material |-> [tag |-> "Item", item_type |-> 1], pattern |-> -1],
     [tag |-> "WithRemainder", ingredient |-> [tag |-> "AnyFuel"],
      remainder |-> [tag |-> "Tag", tag_ |-> str_a]],
     [tag |-> "Composite", options |-> <<>>],
     composite_empty_any_fuel,
     [tag |-> "Composite",
      options |-> <<[tag |-> "Empty"],
                    [tag |-> "Composite", options |-> <<[tag |-> "AnyFuel"]>>]>>],
     [tag |-> "WithRemainder",
      ingredient |-> [tag |-> "SmithingTrim",
                      base |-> [tag |-> "ItemStack", item_stack |-> slot_plain],
                      material |-> composite_empty_any_fuel, pattern |-> 7],
      remainder |-> [tag |-> "Empty"]]}

\* values of the data types, each with its type
DataValues ==
    Typed(T_VarInt, VarIntValues)
        \cup Typed(T_MString(16), {<<>>, str_a, <<97, 98>>, <<195, 169>>, str_long})
        \cup Typed(Identifier, {str_a, str_long})
        \cup Typed(T_Vec(T_VarInt), {<<>>, <<0>>, <<128, -1>>, <<1, 2, 3>>})
        \cup Typed(T_Vec(T_MString(16)), {<<str_a, <<>>>>})
        \cup Typed(T_Option(T_VarInt), {None, Some(0), Some(-1)})
        \cup Typed(T_Option(T_MString(1024)), {None, Some(str_a)})
        \cup Typed(T_bool, BOOLEAN)
        \cup Typed(T_num("u8"), {0, 255})
        \cup Typed(T_num("i8"), {-128, 127})
        \cup Typed(T_num("u16"), {0, 25565, 65535})
        \cup Typed(T_num("i16"), {-32768, -1, 32767})
        \cup Typed(T_num("i32"), {-2147483647 - 1, -1, 0, 2147483647})
        \cup Typed(T_num("u32"), {<<0, 0>>, <<65535, 65535>>})
        \cup Typed(T_num("i64"), KeepAliveIds)
        \cup Typed(T_num("u64"), KeepAliveIds)
        \cup Typed(T_num("f32"), {<<16256, 0>>})
        \cup Typed(T_num("f64"), {<<16368, 0, 0, 0>>})
        \cup Typed(T_num("u128"), {<<1, 2, 3, 4, 5, 6, 7, 65535>>})
        \cup Typed(UUID, {("0" :> <<0, 0, 0, 0, 0, 0, 0, 0>>)})
        \cup Typed(Position, {("0" :> <<65535, 65535, 0, 1>>)})
        \cup Typed(GameProfileProperty,
                   {[name |-> str_a, value |-> str_a, signature |-> None],
                    [name |-> str_a, value |-> <<>>, signature |-> Some(str_a)]})
        \cup Typed(GameProfile,
                   {profile_a,
                    [uuid |-> ("0" :> <<0, 0, 0, 0, 0, 0, 0, 9>>), username |-> str_a,
                     properties |-> <<[name |-> str_a, value |-> str_a,
                                       signature |-> Some(str_a)]>>]})
        \cup Typed(Tag, {[name |-> str_a, entries |-> <<0, 300>>]})
        \cup Typed(Slot, {slot_empty, slot_plain, slot_odd})
        \cup Typed(HandshakeIntent, {"Status", "Login", "Transfer"})
        \cup Typed(Difficulty, {"Peaceful", "Easy", "Normal", "Hard"})
        \cup Typed(T_IDSet,
                   {[tag |-> "Named", v |-> str_a], [tag |-> "Enumerated", v |-> <<>>],
                    [tag |-> "Enumerated", v |-> <<7, 300>>]})
        \cup Typed(T_SlotDisplay, SlotDisplayTrees)

\* the types whose decode starts with a length prefix, and the prefixes tried
LengthPrefixed ==
    {T_Vec(T_VarInt), T_Vec(T_MString(16)), T_Vec(T_num("u8")), T_MString(16), Identifier,
     T_IDSet}

LengthPrefixes == {-2147483647 - 1, -129, -2, -1, 0, 1, 2}

\* the bounds N of the strings MString<N> tried at their limit, and the strings:
\* ASCII ones of every length up to N + 1, and ones of two-byte characters
MaxStrLen == 3

StringBounds == 0..MaxStrLen

Repeat(b, n) == [i \in 1..n |-> b]

BoundedStrings ==
    {Repeat(97, n) : n \in 0..(MaxStrLen + 1)}
        \cup {<<195, 169>>, <<195, 169, 195, 169>>, <<97, 195, 169>>}

\* strings at the limit of each MString<N>, to construct, to encode and to decode;
\* and prefixes 0x10 and 0x11 for MString<16>
StringJobs ==
    {<<"try_from", T_MString(N), s>> : N \in StringBounds, s \in BoundedStrings}
        \cup {<<"try_from", T_MString(16), s>> : s \in {Repeat(97, 16), Repeat(97, 17)}}
        \cup {<<"encode", T_MString(N), s>> : N \in StringBounds, s \in BoundedStrings}
        \cup {<<"encode", T_MString(16), s>> : s \in {Repeat(97, 16), Repeat(97, 17)}}
        \cup {<<"decode", T_MString(N), VarInt_encode(Len(s)).out \o s \o tail>> :
                N \in StringBounds, s \in BoundedStrings, tail \in Tails}
        \cup {<<"decode", T_MString(16), <<n>> \o Repeat(97, n)>> : n \in {16, 17}}

play_login_at_death == play_login(TRUE, Some(str_a), Some(("0" :> <<0, 0, 0, 1>>)))

\* the bytes of Slots without components: count 0, -1, 3 and 1, and a cut-off one
SlotStreams ==
    {<<0>>, <<255, 255, 255, 255, 15>>, <<3, 5, 0, 0>>, <<1, 172, 2, 0, 0>>, <<3, 5>>,
     \* count 0 with bytes after it that could be taken for id and the two counts
     <<0, 5, 0, 0>>,
     \* Slots that announce components: one to add, two to remove, one of each
     <<1, 5, 1, 0, 9>>, <<1, 5, 0, 2, 9, 9>>, <<2, 5, 1, 1, 9, 9>>}

\* records with predicated fields to decode: Slots, and PlayLogin packets with
\* and without a death location
PresenceJobs ==
    {<<"decode", Slot, r \o tail>> : r \in SlotStreams, tail \in Tails}
        \cup {<<"decode", PlayLoginPacket, encode(PlayLoginPacket, v).out \o tail>> :
                v \in {play_login(FALSE, None, None), play_login_at_death}, tail \in Tails}

\* a PlayLogin whose death location is Some although has_death_location is false
play_login_odd == play_login(FALSE, Some(str_a), Some(("0" :> <<0, 0, 0, 1>>)))

\* the same bytes, to decode, encode again and decode again; and the PlayLogin
\* that no decode returns, to encode
ReencodeJobs ==
    {<<"redecode", j[2], j[3]>> : j \in PresenceJobs}
        \cup {<<"encode", PlayLoginPacket, play_login_odd>>}

\* streams that start with a discriminant no variant has: 8, 128 and -1
BadDiscriminants == {<<8>>, <<8, 0>>, <<128, 1>>, <<255, 255, 255, 255, 15>>}

\* SlotDisplays to decode: the bytes of each tree, and the bad discriminants
SlotDisplayJobs ==
    {<<"decode", T_SlotDisplay, encode(T_SlotDisplay, t).out \o tail>> :
        t \in SlotDisplayTrees, tail \in Tails}
        \cup {<<"decode", T_SlotDisplay, r \o tail>> : r \in BadDiscriminants, tail \in Tails}

\* one function, one input: the function, the type, the value or the bytes to read
Jobs ==
    {<<"encode", tv[1], tv[2]>> : tv \in DataValues \cup PacketValues}
        \cup {<<"num_bytes", tv[1], tv[2]>> : tv \in DataValues \cup PacketValues}
        \cup {<<"encode_packet", tv[1], tv[2]>> : tv \in PacketValues}
        \cup {<<"round_trip", tv[1], tv[2]>> : tv \in PacketValues}
        \cup {<<"decode", T_VarInt, r>> : r \in Streams}
        \cup {<<"decode", T, VarInt_encode(len).out \o tail>> :
                T \in LengthPrefixed, len \in LengthPrefixes, tail \in Tails}
        \cup StringJobs
        \cup SlotDisplayJobs
        \cup ReencodeJobs
        \cup PresenceJobs

Done(res) == [done |-> TRUE, res |-> res]

codec_encode ==
    /\ pc = "codec"
    /\ job.op = "encode"
    /\ ~out.done
    /\ out' = Done(encode(job.T, job.v))
    /\ UNCHANGED <<pc, rx, closed, wbuf, wire, log, nsent, job>>

codec_num_bytes ==
    /\ pc = "codec"
    /\ job.op = "num_bytes"
    /\ ~out.done
    /\ out' = Done(num_bytes(job.T, job.v))
    /\ UNCHANGED <<pc, rx, closed, wbuf, wire, log, nsent, job>>

codec_encode_packet ==
    /\ pc = "codec"
    /\ job.op = "encode_packet"
    /\ ~out.done
    /\ out' = Done(encode_packet(job.T, job.v))
    /\ UNCHANGED <<pc, rx, closed, wbuf, wire, log, nsent, job>>

codec_try_from ==
    /\ pc = "codec"
    /\ job.op = "try_from"
    /\ ~out.done
    /\ out' = Done(MString_try_from(job.T.n, job.v))
    /\ UNCHANGED <<pc, rx, closed, wbuf, wire, log, nsent, job>>

\* p.encode_packet(w), then decode_packet_header and P::decode_packet on what it
\* wrote
round_trip_header(P, frame, header) ==
    [frame |-> frame, header |-> header,
     packet |-> IF header.ok THEN decode_packet(P, header.rest) ELSE header]

round_trip(P, frame) == round_trip_header(P, frame, decode_packet_header(frame.out))

codec_round_trip ==
    /\ pc = "codec"
    /\ job.op = "round_trip"
    /\ ~out.done
    /\ out' = Done(round_trip(job.T, encode_packet(job.T, job.v)))
    /\ UNCHANGED <<pc, rx, closed, wbuf, wire, log, nsent, job>>

codec_decode ==
    /\ pc = "codec"
    /\ job.op = "decode"
    /\ ~out.done
    /\ out' = Done(decode(job.T, job.v))
    /\ UNCHANGED <<pc, rx, closed, wbuf, wire, log, nsent, job>>

\* a derived decode, and on its value the derived encode and the decode again
redecode(T, first) ==
    [first |-> first,
     again |-> IF first.ok THEN decode(T, encode(T, first.val).out) ELSE first]

codec_redecode ==
    /\ pc = "codec"
    /\ job.op = "redecode"
    /\ ~out.done
    /\ out' = Done(redecode(job.T, decode(job.T, job.v)))
    /\ UNCHANGED <<pc, rx, closed, wbuf, wire, log, nsent, job>>

InitCodec ==
    /\ pc = "codec"
    /\ rx = <<>>
    /\ closed = FALSE
    /\ wbuf = <<>>
    /\ wire = <<>>
    /\ log = <<>>
    /\ nsent = 0
    /\ \E j \in Jobs : job = [op |-> j[1], T |-> j[2], v |-> j[3]]
    /\ out = [done |-> FALSE]

NextCodec ==
    \/ codec_encode
    \/ codec_num_bytes
    \/ codec_encode_packet
    \/ codec_try_from
    \/ codec_round_trip
    \/ codec_redecode
    \/ codec_decode

SpecCodec == InitCodec /\ [][NextCodec]_vars

(***************************************************************************)
(* Properties of the connection, over the log                              *)
(***************************************************************************)
\* the call the i-th event of the log was made in
CallAt(i) ==
    IF \E j \in 1..i : log[j].ev = "play" THEN "play"
    ELSE IF \E j \in 1..i : log[j].ev = "configure" THEN "configure"
    ELSE "login"

IsSend(e) == e.ev \in {"send", "send_err"}

\* the events of the log made in a call
EventsOf(call) == {i \in 1..Len(log) : CallAt(i) = call}

\* C1: whenever configure() has returned Ok, a FinishConfiguration packet (id 0x03)
\* was received in that call and AcknowledgeFinishConfiguration (id 0x03) was the
\* last packet sent
ConfigureReturnsOkOnlyThroughFinish ==
    pc = "configure_ok" =>
        /\ \E i \in EventsOf("configure") :
              log[i].ev = "recv" /\ log[i].id = FinishConfigurationPacket.ID
        /\ \E i \in EventsOf("configure") :
              /\ log[i].ev = "send"
              /\ log[i].id = AcknowledgeFinishConfigurationPacket.ID
              /\ \A j \in (i + 1)..Len(log) : ~IsSend(log[j])

\* the number of packets that have reached the transport up to the i-th event
SendsUpTo(i) == Cardinality({j \in 1..i : log[j].ev = "send"})

\* the keep-alive a loop receives and the one it answers with
KeepAliveIn(call) ==
    IF call = "play" THEN ClientboundPlayKeepAlivePacket ELSE ConfigurationKeepAlivePacket

KeepAliveOut(call) ==
    IF call = "play" THEN ServerboundPlayKeepAlivePacket ELSE ConfigurationKeepAlivePacket

IsKeepAliveRecv(i) ==
    /\ CallAt(i) \in {"configure", "play"}
    /\ log[i].ev = "recv"
    /\ log[i].id = KeepAliveIn(CallAt(i)).ID

\* the i-th event is a keep-alive received and the next one its reply
KeepAliveReply(i, reply) ==
    /\ IsSend(reply)
    /\ reply.id = KeepAliveOut(CallAt(i)).ID
    /\ reply.val = [keep_alive_id |-> log[i].val.keep_alive_id]
    /\ reply.ev = "send" =>
          wire[SendsUpTo(i + 1)] = encode_packet(KeepAliveOut(CallAt(i)), reply.val).out
    /\ reply.ev = "send_err" => i + 1 = Len(log) /\ pc = ErrPc(CallAt(i), "io")

\* C2: in the Configuration loop (inbound id 0x04) and in the Play loop (inbound id
\* 0x2B) every keep-alive received is followed at once by exactly one keep-alive
\* sent (0x04, 0x1B) with the identical 64-bit id, whose whole frame has reached
\* the transport before the next header is read; the only other outcome is that
\* the transport refuses the write and the call returns that error
KeepAliveIsReflected ==
    \A i \in 1..Len(log) :
        IsKeepAliveRecv(i) =>
            /\ i < Len(log)
            /\ KeepAliveReply(i, log[i + 1])
            /\ i + 2 <= Len(log) => log[i + 2].ev = "header"
            /\ pc \in {"configure", "play"} => wbuf = <<>>

\* a keep-alive has been received and answered in Play, and one more header read
KeepAliveReflectedInPlay ==
    \E i \in 1..Len(log) :
        /\ IsKeepAliveRecv(i)
        /\ CallAt(i) = "play"
        /\ i < Len(log)
        /\ log[i + 1].ev = "send"
        /\ log[i + 1].val.keep_alive_id = <<291, 17767, 35243, 52719>>

\* C3: in play() a packet whose id is not a recognised one never ends the loop and
\* produces no outbound packet: its len - size(id) payload bytes are read and the
\* next event is the next header, and play() ends only with a transport or codec
\* error
PlaySkipsUnknownPackets ==
    /\ \A i \in EventsOf("play") :
          (log[i].ev = "header" /\ log[i].id # ClientboundPlayKeepAlivePacket.ID) =>
              \/ /\ i < Len(log)
                 /\ log[i + 1].ev = "raw"
                 /\ Len(log[i + 1].val) = log[i].val - VarInt_num_bytes(log[i].id)
                 /\ i + 2 <= Len(log) => log[i + 2].ev = "header"
              \/ i = Len(log) /\ pc = "play_err"
    /\ EventsOf("play") # {} => pc \in {"play", "play_err"}

\* C4: login() sends Handshake{protocol 773, intent Login}, then LoginStart, then
\* reads one packet, and sends LoginAcknowledged (0x03) only after a LoginSuccess
\* (inbound id 0x02) has been received
LoginAcknowledgesOnlyLoginSuccess ==
    \A i \in EventsOf("login") :
        /\ i = 1 =>
              /\ IsSend(log[i])
              /\ log[i].id = HandshakePacket.ID
              /\ log[i].val.protocol_version = 773
              /\ log[i].val.intent = "Login"
        /\ i = 2 =>
              /\ IsSend(log[i])
              /\ log[i].id = LoginStartPacket.ID
              /\ log[i].val.name = player_name
        /\ i = 3 => log[i].ev = "header"
        /\ (i > 2 /\ IsSend(log[i])) =>
              /\ log[i].id = LoginAcknowledgedPacket.ID
              /\ log[i - 1].ev = "recv"
              /\ log[i - 1].id = LoginSuccessPacket.ID
        /\ i <= 5

(***************************************************************************)
(* Properties of the codec                                                 *)
(***************************************************************************)
Applied(op) == job.op = op /\ out.done

\* frame is VarInt(len) \o VarInt(ID) \o payload with len the bytes that follow it
FramedAs(frame, ID, payload) ==
    /\ frame.ok = payload.ok
    /\ payload.ok =>
          /\ frame.out
                = VarInt_encode(Len(VarInt_encode(ID).out) + Len(payload.out)).out
                    \o VarInt_encode(ID).out \o payload.out
          /\ VarInt_decode(frame.out).val = Len(VarInt_decode(frame.out).rest)

\* C5: for every packet value, encode_packet writes VarInt(len), then VarInt(ID),
\* then the payload's encoding, with len = size(ID) + size(payload), so that len
\* counts the bytes after it and not its own; a packet without fields is framed
\* as [0x01, ID]
EncodePacketFrames ==
    Applied("encode_packet") =>
        /\ FramedAs(out.res, job.T.ID, encode(job.T, job.v))
        /\ (job.T.k = "struct" /\ job.T.fields = <<>>) => out.res.out = <<1, job.T.ID>>

\* a frame whose length takes two bytes has been written
LongFrameWritten ==
    /\ Applied("encode_packet")
    /\ job.T = StatusResponsePacket
    /\ Len(out.res.out) = 135
    /\ SubSeq(out.res.out, 1, 3) = <<133, 1, 0>>

IsHandshakeScenario ==
    /\ Applied("encode_packet")
    /\ job.T = HandshakePacket
    /\ job.v = handshake_status

handshake_payload ==
    <<255, 255, 255, 255, 15, 9, 108, 111, 99, 97, 108, 104, 111, 115, 116, 99, 221, 1>>

\* C6: encode_packet of HandshakePacket{protocol_version -1, "localhost", 25565,
\* Status} writes the 18 payload bytes FF FF FF FF 0F, 09 "localhost", 63 DD, 01
\* after the two framing bytes [0x13, 0x00]: the outer length is 19, the id's one
\* byte and the payload's 18
HandshakeScenarioBytes ==
    IsHandshakeScenario => out.res = Wrote(<<19, 0>> \o handshake_payload)

\* C6 as stated: the two framing bytes are [0x10, 0x00]
HandshakeScenarioLen16 ==
    IsHandshakeScenario => out.res = Wrote(<<16, 0>> \o handshake_payload)

HandshakeScenarioEncoded == IsHandshakeScenario /\ Len(out.res.out) = 20

\* C7: for every value of every type, num_bytes of the value is the number of
\* bytes a successful encode of it writes
NumBytesIsEncodedLength ==
    /\ (Applied("encode") /\ out.res.ok) => num_bytes(job.T, job.v) = Len(out.res.out)
    /\ (Applied("num_bytes") /\ encode(job.T, job.v).ok) =>
          out.res = Len(encode(job.T, job.v).out)

\* a Slot with its predicated fields present has been sized
SlotSized ==
    /\ Applied("num_bytes")
    /\ job.T = Slot
    /\ job.v = slot_plain
    /\ out.res > 1

\* C8: for every i32 v, decoding the bytes VarInt(v).encode wrote gives v back and
\* consumes exactly those bytes; every byte but the last has the continuation
\* bit; 0 -> 00, 127 -> 7F, 128 -> 80 01, -1 -> FF FF FF FF 0F; a negative v takes
\* five bytes
VarIntRoundTrip ==
    (Applied("encode") /\ job.T = T_VarInt) =>
        /\ out.res.ok
        /\ \A tail \in Tails : VarInt_decode(out.res.out \o tail) = Ok(job.v, tail)
        /\ \A i \in 1..Len(out.res.out) :
              Continues(out.res.out[i]) <=> i < Len(out.res.out)
        /\ job.v = 0 => out.res.out = <<0>>
        /\ job.v = 127 => out.res.out = <<127>>
        /\ job.v = 128 => out.res.out = <<128, 1>>
        /\ job.v = -1 => out.res.out = <<255, 255, 255, 255, 15>>
        /\ job.v < 0 => Len(out.res.out) = 5

MinusOneEncoded ==
    /\ Applied("encode")
    /\ job.T = T_VarInt
    /\ job.v = -1
    /\ out.res.out = <<255, 255, 255, 255, 15>>

\* the positions among the first five bytes of r whose byte ends a VarInt
Stops(r) == {i \in 1..Len(r) : i <= 5 /\ ~Continues(r[i])}

Least(S) == CHOOSE i \in S : \A j \in S : i <= j

VarIntDecodedAt(r, res, stops) ==
    /\ stops # {} => res.ok /\ res.rest = SubSeq(r, Least(stops) + 1, Len(r))
    /\ (stops = {} /\ Len(r) >= 5) =>
          ~res.ok /\ res.err = "malformed" /\ res.rest = SubSeq(r, 6, Len(r))
    /\ (stops = {} /\ Len(r) < 5) => ~res.ok /\ res.err = "eof"
    /\ r = <<128, 0>> => res.val = 0
    /\ r = <<255, 255, 255, 255, 127>> => res.val = -1
    /\ r = <<128, 128, 128, 128, 15>> => res.val = -268435456

\* C9: VarInt::decode returns a value at the first byte without the continuation
\* bit among the first five (an over-long encoding included), having consumed
\* the bytes up to it; when the fifth byte still has the bit it returns an error
\* having consumed exactly five bytes; it never reads a sixth
VarIntDecodeBoundary ==
    (Applied("decode") /\ job.T = T_VarInt) => VarIntDecodedAt(job.v, out.res, Stops(job.v))

FiveContinuationBytesRejected ==
    /\ Applied("decode")
    /\ job.T = T_VarInt
    /\ job.v = <<128, 128, 128, 128, 128, 0>>
    /\ out.res = Err("malformed", <<0>>)

\* C10: decoding a Vec<T>, a bounded string or an IDSet whose leading VarInt is
\* negative returns an error value to the caller; it does not panic
NegativeLengthIsAnError ==
    (Applied("decode") /\ job.T \in LengthPrefixed /\ VarInt_decode(job.v).val < 0) =>
        ~out.res.ok /\ out.res.err = "malformed"

\* C11: for every N, constructing and encoding an MString<N> succeed exactly for
\* the strings of at most N bytes of UTF-8 (and so fail at N + 1 bytes, whatever
\* the number of characters), and MString<N>::decode fails when the length
\* prefix exceeds N, leaving the string's bytes unread
BoundedStringLimit ==
    /\ Applied("try_from") =>
          /\ out.res.ok <=> Len(job.v) <= job.T.n
          /\ out.res.ok => out.res.val = job.v
    /\ (Applied("encode") /\ job.T.k = "MString") =>
          /\ out.res.ok <=> Len(job.v) <= job.T.n
          /\ ~out.res.ok => out.res.out = <<>>
    /\ (Applied("decode") /\ job.T.k = "MString" /\ VarInt_decode(job.v).val > job.T.n) =>
          /\ ~out.res.ok
          /\ out.res.err = "malformed"
          /\ out.res.rest = VarInt_decode(job.v).rest

\* prefix 0x11 has been refused by MString<16>, its 17 bytes left unread
Prefix17Refused ==
    /\ Applied("decode")
    /\ job.T = T_MString(16)
    /\ job.v = <<17>> \o Repeat(97, 17)
    /\ out.res = Err("malformed", Repeat(97, 17))

\* the bytes of a predicated VarInt field: the inner value's, or none
OptBytes(x) == IF x = None THEN <<>> ELSE VarInt_encode(x[1]).out

AllNone(count) ==
    [count |-> count, id |-> None, num_components_add |-> None,
     num_components_remove |-> None, components_add |-> None, components_remove |-> None]

\* res is what the bytes of a Slot decode to, count, id, add and rem being the
\* four VarInts the bytes start with
SlotDecodedAs(res, count, id, add, rem) ==
    /\ (count.ok /\ count.val <= 0) => res = Ok(AllNone(count.val), count.rest)
    /\ (count.ok /\ count.val > 0 /\ id.ok /\ add.ok /\ rem.ok /\ add.val <= 0 /\ rem.val <= 0)
          => res = Ok([AllNone(count.val) EXCEPT !.id = Some(id.val),
                                              !.num_components_add = Some(add.val),
                                              !.num_components_remove = Some(rem.val)],
                      rem.rest)
    /\ ~(count.ok /\ (count.val <= 0 \/ (id.ok /\ add.ok /\ rem.ok))) => ~res.ok

\* the encoding of a PlayLogin with a death location is that of the one without,
\* with has_death_location (the fourth byte from the end) set and, right after
\* it, the name's and the position's bytes
DeathLocationBytes(with, without) ==
    with = SubSeq(without, 1, Len(without) - 4)
              \o <<1>> \o <<1, 97>> \o <<0, 0, 0, 0, 0, 0, 0, 1>>
              \o SubSeq(without, Len(without) - 2, Len(without))

\* C12: a field with a presence predicate is decoded, and wrapped in Some, iff
\* the predicate holds of the fields decoded before it, and is None and takes no
\* byte otherwise; encode writes the inner value, without a boolean byte, iff the
\* field is Some.  Slot{count = 0} encodes to [0x00], and [0x00] decodes to a Slot
\* with count 0 and every later field None
PresencePredicatedFields ==
    /\ (Applied("decode") /\ job.T = Slot) =>
          SlotDecodedAs(out.res, VarInt_decode(job.v),
                        VarInt_decode(VarInt_decode(job.v).rest),
                        VarInt_decode(VarInt_decode(VarInt_decode(job.v).rest).rest),
                        VarInt_decode(
                            VarInt_decode(VarInt_decode(VarInt_decode(job.v).rest).rest).rest))
    /\ (Applied("encode") /\ job.T = Slot) =>
          out.res = Wrote(VarInt_encode(job.v.count).out \o OptBytes(job.v.id)
                              \o OptBytes(job.v.num_components_add)
                              \o OptBytes(job.v.num_components_remove))
    /\ (Applied("encode") /\ job.T = Slot /\ job.v = slot_empty) => out.res.out = <<0>>
    /\ (Applied("decode") /\ job.T = Slot /\ job.v = <<0>>) => out.res = Ok(slot_empty, <<>>)
    /\ (Applied("encode") /\ job.T = PlayLoginPacket /\ job.v = play_login_at_death) =>
          DeathLocationBytes(out.res.out,
                             encode(PlayLoginPacket, play_login(FALSE, None, None)).out)
    /\ (Applied("decode") /\ job.T = PlayLoginPacket) =>
          \E tail \in Tails :
              \E v \in {play_login(FALSE, None, None), play_login_at_death} :
                  /\ job.v = encode(PlayLoginPacket, v).out \o tail
                  /\ out.res = Ok(v, tail)

\* the bytes 00 01 have been decoded as a Slot: every field absent, 01 unread
EmptySlotDecoded ==
    /\ Applied("decode")
    /\ job.T = Slot
    /\ job.v = <<0, 1>>
    /\ out.res = Ok(slot_empty, <<1>>)

\* C13: for every packet type P and every value p its decoder can produce,
\* decode_packet_header and then P::decode_packet, run on the bytes p.encode_packet
\* wrote, consume all of them and return id = P::ID, len = size(id) + the payload
\* bytes consumed, and a value equal to p
FramingInverts ==
    (Applied("round_trip") /\ out.res.frame.ok) =>
        /\ out.res.header.ok
        /\ out.res.header.val.id = job.T.ID
        /\ out.res.packet.ok
        /\ out.res.packet.rest = <<>>
        /\ out.res.packet.val = job.v
        /\ out.res.header.val.len
              = VarInt_num_bytes(job.T.ID)
                  + (Len(out.res.header.rest) - Len(out.res.packet.rest))

\* a PlayLogin with its predicated fields present has gone through the round trip
PlayLoginRoundTrip ==
    /\ Applied("round_trip")
    /\ job.T = PlayLoginPacket
    /\ job.v = play_login_at_death
    /\ out.res.packet.ok
    /\ out.res.header.val.id = 48

\* the type of the n-th packet the handlers send: login() sends Handshake and
\* LoginStart first, and every later packet is told by its id
SentPacket(n, id) ==
    CASE n = 1 -> HandshakePacket
      [] n = 2 -> LoginStartPacket
      [] n > 2 /\ id = ServerboundKnownPacksPacket.ID -> ServerboundKnownPacksPacket
      [] n > 2 /\ id = ConfigurationKeepAlivePacket.ID -> ConfigurationKeepAlivePacket
      [] n > 2 /\ id = ServerboundPlayKeepAlivePacket.ID -> ServerboundPlayKeepAlivePacket
      [] OTHER -> AcknowledgeFinishConfigurationPacket

\* the n-th write that reached the transport is the whole frame of the packet e
WroteFrame(n, e) ==
    /\ n <= Len(wire)
    /\ wire[n] = encode_packet(SentPacket(n, e.id), e.val).out

\* the program counters at which the next thing a call does is read a header
HeaderReads == {"login_start_sent", "configure", "play"}

\* C14: every send_packet writes the whole frame of its packet and flushes before
\* it returns: what has reached the transport is the frames of the packets sent,
\* one whole frame per write, in the order the handlers sent them, and nothing
\* is left in the writer when a header read begins
OutboundOrderAndFlush ==
    /\ Len(wire) = SendsUpTo(Len(log))
    /\ \A i \in 1..Len(log) : log[i].ev = "send" => WroteFrame(SendsUpTo(i), log[i])
    /\ pc \in HeaderReads => wbuf = <<>>

\* login has sent its three packets, configure a KnownPacks reply and its
\* acknowledgement, and play is about to read a header
FivePacketsOnTheWire ==
    /\ pc = "play"
    /\ Len(wire) = 5
    /\ \E i \in 1..Len(log) :
          log[i].ev = "send" /\ log[i].id = ServerboundKnownPacksPacket.ID

\* the call that is running at a program counter where a header is read
CallOf(at) == IF at = "login_start_sent" THEN "login" ELSE at

\* the program counters of a call that has returned an error, and of one that a
\* panic has ended
Returned_Err == {"login_err", "configure_err", "play_err"}

Ended == Returned_Err \cup {"panicked"}

\* the i-th event is a header whose payload read (typed or raw) did not succeed
PayloadFailedAt(i) ==
    /\ log[i].ev = "header"
    /\ i = Len(log) \/ log[i + 1].ev \notin {"recv", "raw"}

\* the header read of this step fails with the error of header
HeaderFails(header) == pc \in HeaderReads /\ ~header.ok /\ pc' # pc

\* the client has written nothing in this step
NothingWritten == log' = log /\ wire' = wire /\ wbuf' = wbuf

\* the client has neither written nor read in this step: the inbound bytes are
\* those there were, and what the server has sent since
ClientIdle ==
    /\ NothingWritten
    /\ Len(rx') >= Len(rx)
    /\ SubSeq(rx', 1, Len(rx)) = rx

IsKnownPacksRecv(i) ==
    /\ CallAt(i) = "configure"
    /\ log[i].ev = "recv"
    /\ log[i].id = ClientboundKnownPacksPacket.ID

\* the i-th event is a KnownPacks packet received and `reply` the event after it
KnownPacksReply(i, reply) ==
    /\ IsSend(reply)
    /\ reply.id = ServerboundKnownPacksPacket.ID
    /\ reply.val = [known_packs |-> log[i].val.known_packs]
    /\ reply.ev = "send" => WroteFrame(SendsUpTo(i + 1), reply)
    /\ reply.ev = "send_err" => i + 1 = Len(log) /\ pc = "configure_err"

\* the ids of the packets configure() takes in without an answer
configure_silent_ids ==
    {ClientboundConfigurationPluginMessagePacket.ID, FeatureFlagsPacket.ID,
     RegistryDataPacket.ID, ConfigurationUpdateTagsPacket.ID}

\* C16: in configure() every KnownPacks packet received (0x0E) is followed at once
\* by exactly one ServerboundKnownPacks (0x07) with the same packs in the same
\* order, on the transport before the next header is read (or refused by the
\* transport, which ends the call); no ServerboundKnownPacks is sent otherwise, and
\* PluginMessage, FeatureFlags, RegistryData and UpdateTags are followed by no send
KnownPacksHandshake ==
    \A i \in EventsOf("configure") :
        /\ IsKnownPacksRecv(i) =>
              /\ i < Len(log)
              /\ KnownPacksReply(i, log[i + 1])
              /\ i + 2 <= Len(log) => log[i + 2].ev = "header"
              /\ pc = "configure" => wbuf = <<>>
        /\ (IsSend(log[i]) /\ log[i].id = ServerboundKnownPacksPacket.ID) =>
              IsKnownPacksRecv(i - 1)
        /\ (log[i].ev \in {"recv", "raw"} /\ log[i].id \in configure_silent_ids) =>
              (i = Len(log) \/ ~IsSend(log[i + 1]))

\* two packs have been received and answered, and a FeatureFlags packet after them
TwoPacksAnswered ==
    \E i \in EventsOf("configure") :
        /\ IsKnownPacksRecv(i)
        /\ Len(log[i].val.known_packs) = 2
        /\ i + 3 <= Len(log)
        /\ log[i + 1].ev = "send"
        /\ log[i + 3].ev = "recv"
        /\ log[i + 3].id = FeatureFlagsPacket.ID

\* the discriminant of a SlotDisplay variant
Discriminant(variant) ==
    CASE variant = "Empty" -> 0
      [] variant = "AnyFuel" -> 1
      [] variant = "Item" -> 2
      [] variant = "ItemStack" -> 3
      [] variant = "Tag" -> 4
      [] variant = "SmithingTrim" -> 5
      [] variant = "WithRemainder" -> 6
      [] variant = "Composite" -> 7

\* the fields of a SlotDisplay in the order its variant declares them, each with
\* its type
DeclaredFields(t) ==
    CASE t.tag \in {"Empty", "AnyFuel"} -> <<>>
      [] t.tag = "Item" -> <<<<T_VarInt, t.item_type>>>>
      [] t.tag = "ItemStack" -> <<<<Slot, t.item_stack>>>>
      [] t.tag = "Tag" -> <<<<Identifier, t.tag_>>>>
      [] t.tag = "SmithingTrim" ->
            <<<<T_SlotDisplay, t.base>>, <<T_SlotDisplay, t.material>>,
              <<T_VarInt, t.pattern>>>>
      [] t.tag = "WithRemainder" ->
            <<<<T_SlotDisplay, t.ingredient>>, <<T_SlotDisplay, t.remainder>>>>
      [] t.tag = "Composite" -> <<<<T_Vec(T_SlotDisplay), t.options>>>>

RECURSIVE FieldBytes(_, _)
\* the bytes of the fields fs, from the i-th on, one after the other
FieldBytes(fs, i) ==
    IF i > Len(fs) THEN <<>>
    ELSE encode(fs[i][1], fs[i][2]).out \o FieldBytes(fs, i + 1)

\* the stream starts with a VarInt that is no discriminant
NoVariant(d) == d.ok /\ d.val \notin 0..7

\* C17: SlotDisplay::encode writes the variant's discriminant (0 Empty .. 7
\* Composite) as a VarInt and then the variant's fields in declaration order, so
\* Composite{[Empty, AnyFuel]} is [0x07, 0x02, 0x00, 0x01]; decode gives back the
\* tree from its bytes and leaves what follows them unread, and returns an error
\* for a discriminant outside 0..7
SlotDisplayTaggedUnion ==
    /\ (Applied("encode") /\ job.T = T_SlotDisplay) =>
          /\ out.res.ok
          /\ out.res.out
                = VarInt_encode(Discriminant(job.v.tag)).out
                    \o FieldBytes(DeclaredFields(job.v), 1)
          /\ job.v = composite_empty_any_fuel => out.res.out = <<7, 2, 0, 1>>
    /\ (Applied("decode") /\ job.T = T_SlotDisplay) =>
          /\ \A t \in SlotDisplayTrees, tail \in Tails :
                job.v = encode(T_SlotDisplay, t).out \o tail => out.res = Ok(t, tail)
          /\ NoVariant(VarInt_decode(job.v)) =>
                ~out.res.ok /\ out.res.err = "malformed"

\* the tree three deep has been decoded from its bytes
DeepTreeDecoded ==
    /\ Applied("decode")
    /\ job.T = T_SlotDisplay
    /\ out.res.ok
    /\ out.res.val.tag = "WithRemainder"
    /\ out.res.val.ingredient.tag = "SmithingTrim"
    /\ out.res.val.ingredient.material = composite_empty_any_fuel
    /\ out.res.rest = <<128, 0>>

\* the packet types a call decodes with recv_packet after a header with this id:
\* login() takes whatever comes as LoginSuccess
TypedArms(at, id) ==
    CASE at = "login_start_sent" -> {LoginSuccessPacket}
      [] at = "configure" ->
            {P \in {ClientboundConfigurationPluginMessagePacket, FeatureFlagsPacket,
                    ClientboundKnownPacksPacket, ConfigurationKeepAlivePacket,
                    ConfigurationUpdateTagsPacket, FinishConfigurationPacket} : P.ID = id}
      [] at = "play" -> {P \in {ClientboundPlayKeepAlivePacket} : P.ID = id}
      [] OTHER -> {}

\* the decoder has read fewer bytes than the len - size(id) the header announced
StopsShort(header, resp) ==
    /\ resp.ok
    /\ Len(header.rest) - Len(resp.rest)
          < header.val.len - VarInt_num_bytes(header.val.id)

\* in this step the client has read the header `header` and decoded its packet
TypedStep(header) == pc \in HeaderReads /\ header.ok /\ log' # log

\* C18: when the typed decoder of a known packet reads fewer payload bytes than
\* header.len - size(id), nothing is skipped: the inbound stream is left right
\* where the decoder stopped, so the next header read starts at the excess bytes
UnderConsumptionNotDrained ==
    [][TypedStep(recv_packet_header(rx)) =>
          \A P \in TypedArms(pc, recv_packet_header(rx).val.id) :
              StopsShort(recv_packet_header(rx),
                         recv_packet(P, recv_packet_header(rx).rest)) =>
                  rx' = recv_packet(P, recv_packet_header(rx).rest).rest]_vars

\* a PluginMessage on an unknown channel was followed by a header read from its
\* own payload: the server sent LoginSuccess and the PluginMessage only, and the
\* client has taken the payload [1, 3] for a FinishConfiguration
PayloadReadAsHeader ==
    /\ nsent = 2
    /\ rx = <<>>
    /\ pc = "configure_ok"
    /\ \E i \in EventsOf("configure") :
          /\ i + 2 <= Len(log)
          /\ log[i].ev = "recv"
          /\ log[i].id = ClientboundConfigurationPluginMessagePacket.ID
          /\ log[i + 1].ev = "header"
          /\ log[i + 1].id = FinishConfigurationPacket.ID
          /\ log[i + 1].val = 1
          /\ log[i + 2].ev = "recv"

\* the i-th event is a header whose payload the call reads with recv_packet_raw:
\* RegistryData and the `_` arm in configure(), the `_` arm in play()
RawArmAt(i) ==
    /\ log[i].ev = "header"
    /\ \/ /\ CallAt(i) = "configure"
          /\ log[i].id \in {RegistryDataPacket.ID} \cup (0..255 \ configure_ids)
       \/ /\ CallAt(i) = "play"
          /\ log[i].id # ClientboundPlayKeepAlivePacket.ID

\* C19: for every header read, recv_packet_raw reads exactly len - size(id) bytes,
\* a count that is never negative: a header with len below size(id) causes no
\* underflow, no wrapped-around read size and no abort (the raw read ends with the
\* bytes or with a read error)
RawSkipLength ==
    \A i \in 1..Len(log) :
        RawArmAt(i) =>
            /\ log[i].val >= VarInt_num_bytes(log[i].id)
            /\ i < Len(log) =>
                  /\ log[i + 1].ev = "raw"
                  /\ Len(log[i + 1].val) = log[i].val - VarInt_num_bytes(log[i].id)
            /\ i = Len(log) => pc \in Returned_Err

\* C20: Slot::decode of a Slot with count > 0 reads id, num_components_add and
\* num_components_remove and, when one of the two is above 0, goes on to consume
\* the components; whatever the bytes, it ends by returning a Slot or an Error
\* value and never aborts
SlotDecodeReturns ==
    (Applied("decode") /\ job.T = Slot) =>
        /\ out.res.ok \/ out.res.err \in {"eof", "malformed"}
        /\ (out.res.ok /\ out.res.val.count > 0) =>
              /\ out.res.val.num_components_add[1] > 0
                    <=> out.res.val.components_add # None
              /\ out.res.val.num_components_remove[1] > 0
                    <=> out.res.val.components_remove # None

\* in the record self of type T every field with a presence predicate is Some iff
\* the predicate holds of self
PresenceHolds(T, self) ==
    \A k \in 1..Len(T.fields) :
        T.fields[k].cond # "" =>
            (self[T.fields[k].name] # None <=> present_if(T.fields[k].cond, self))

\* the same, spelt out for Slot and for PlayLogin
SlotPresence(self) ==
    /\ self.id # None <=> self.count > 0
    /\ self.num_components_add # None <=> self.count > 0
    /\ self.num_components_remove # None <=> self.count > 0

PlayLoginPresence(self) ==
    /\ self.death_dimention_name # None <=> self.has_death_location
    /\ self.death_location # None <=> self.has_death_location

\* the bytes of a PlayLogin with has_death_location false and both death fields
\* Some: those of the one without, with the name's and the position's bytes right
\* after the has_death_location byte (the fourth from the end)
OddDeathLocationBytes(odd, without) ==
    odd = SubSeq(without, 1, Len(without) - 3)
              \o <<1, 97>> \o <<0, 0, 0, 0, 0, 0, 0, 1>>
              \o SubSeq(without, Len(without) - 2, Len(without))

\* C21: every record a derived decode returns has each predicated field Some iff
\* its predicate is true (Slot: id and the two component counts iff count > 0;
\* PlayLogin: the death fields iff has_death_location), so encoding it and decoding
\* again gives the same value; encode does not check this and writes a Some field
\* whose predicate is false
DecodedPresenceInvariant ==
    /\ (Applied("redecode") /\ out.res.first.ok) =>
          /\ PresenceHolds(job.T, out.res.first.val)
          /\ job.T = Slot => SlotPresence(out.res.first.val)
          /\ job.T = PlayLoginPacket => PlayLoginPresence(out.res.first.val)
          /\ out.res.again = Ok(out.res.first.val, <<>>)
    /\ (Applied("encode") /\ job.T = Slot /\ job.v = slot_odd) => out.res = Wrote(<<0, 5>>)
    /\ (Applied("encode") /\ job.T = PlayLoginPacket /\ job.v = play_login_odd) =>
          /\ out.res.ok
          /\ OddDeathLocationBytes(out.res.out,
                                   encode(PlayLoginPacket, play_login(FALSE, None, None)).out)

\* a Slot with count 3, decoded from bytes with a tail, has been encoded and
\* decoded again
SlotDecodedTwice ==
    /\ Applied("redecode")
    /\ job.T = Slot
    /\ job.v = <<3, 5, 0, 0, 1>>
    /\ out.res.first.rest = <<1>>
    /\ out.res.again.ok
    /\ out.res.again.val.id = Some(5)

====
